---------------------------- MODULE Spec2Model ----------------------------
(***************************************************************************)
(* A model of pyth-network/program-admin: the mapping chain resolver        *)
(* (sort_mapping_account_keys), the override filter (apply_overrides), the  *)
(* transaction batcher (ProgramAdmin.send_transaction), the sync           *)
(* orchestrator (ProgramAdmin.sync) with the on-chain accounts it reads     *)
(* and writes, the account decoders (parse_account, parse_price_data,       *)
(* parse_product_data) with the loop of refresh_program_accounts, and       *)
(* sort_mapping_account_keys of program_sync.                               *)
(*                                                                          *)
(* Public keys are strings.  Python's None is the string "None".  A Python  *)
(* dict is a TLA+ function; a Python list is a sequence.                    *)
(***************************************************************************)
EXTENDS Integers, Sequences, FiniteSets, TLC

VARIABLES
    \* ---- sort_mapping_account_keys (util.py) ----
    accounts,           \* the argument: a list of mapping accounts
    sort_result,        \* what the call produced: a list, or an exception
    sort_pc,            \* "call" before the call, "done" after it
    \* ---- apply_overrides (util.py) ----
    ref_permissions,    \* the argument ref_permissions (the caller's dict)
    ref_overrides,      \* the argument ref_overrides (the caller's dict)
    network,            \* the argument network
    arg_permissions,    \* the caller's copy of ref_permissions taken before the calls
    arg_overrides,      \* the caller's copy of ref_overrides taken before the calls
    overridden_permissions,   \* the value returned by the first call
    overridden_twice,   \* the value returned by a second call on the first result
    ov_pc,              \* "call", "once", "twice"
    \* ---- ProgramAdmin.send_transaction (__init__.py) ----
    send_input,         \* the instructions argument of the outermost call
    instructions,       \* the instructions argument of the current (recursive) call
    signers,            \* the signers argument
    ix_index,           \* instructions[0:ix_index] are in the transaction built by this call
    in_flight,          \* the transaction handed to send_raw_transaction, or <<>>
    submitted,          \* every transaction handed to send_raw_transaction so far
    send_pc,            \* "call", "in_flight", "returned", "raised"
    \* ---- ProgramAdmin.sync (__init__.py) and its environment ----
    chain,              \* the accounts on the network, by public key
    initial_chain,      \* the accounts on the network before the first run
    key_dir,            \* the labels that have a keypair file in the key directory
    test_mode,          \* whether the environment variable TEST_MODE is set
    mapping_accounts,   \* self._mapping_accounts
    product_accounts,   \* self._product_accounts
    price_accounts,     \* self._price_accounts
    authority_permission_account,   \* self.authority_permission_account
    ref_products,       \* the arguments of sync (ref_permissions is declared above)
    ref_authority_permissions,
    send_transactions,
    generate_keys,
    allocate_price_v2,
    sync_instructions,  \* the local list "instructions" that sync returns
    product_updates,    \* the local flag product_updates
    symbol_index,       \* how many symbols the current loop has dealt with
    transactions,       \* the send_transaction calls of the run, by phase and symbol
    sync_pc,            \* the position of the coroutine sync
    sync_error,         \* the exception sync raised, or None
    run,                \* the number of the current invocation of sync
    phases,             \* the phases whose plan this run has computed, in order
    fetches,            \* the fetches of this run, in order
    plans,              \* the sub-plans this run has computed
    \* ---- parse_account and the loop of refresh_program_accounts ----
    result,             \* the records get_program_accounts returned
    env_test_mode,      \* whether the environment variable TEST_MODE is set
    known_mapping_accounts,     \* self._mapping_accounts
    known_product_accounts,     \* self._product_accounts
    known_price_accounts,       \* self._price_accounts
    known_permission_account,   \* self.authority_permission_account
    record_index,       \* how many records the loop has dealt with
    refresh_pc,         \* "loop", "returned", "raised"
    refresh_error,      \* the exception the loop raised, or None
    \* ---- parse_price_data and parse_product_data (parsing.py) ----
    price_data,         \* the argument of parse_price_data
    product_data,       \* the argument of parse_product_data
    codec_result,       \* what the call returned or raised
    codec_pc            \* "price" or "product" before the call, then "price_done" or "product_done"

sortVars == <<accounts, sort_result, sort_pc>>
ovVars == <<ref_permissions, ref_overrides, network, arg_permissions,
            arg_overrides, overridden_permissions, overridden_twice, ov_pc>>
sendVars == <<send_input, instructions, signers, ix_index, in_flight, submitted,
              send_pc>>
syncVars == <<chain, initial_chain, key_dir, test_mode, mapping_accounts, product_accounts,
              price_accounts, authority_permission_account, ref_products,
              ref_authority_permissions, send_transactions, generate_keys,
              allocate_price_v2, sync_instructions, product_updates,
              symbol_index, transactions, sync_pc, sync_error, run, phases,
              fetches, plans>>
refreshVars == <<result, env_test_mode, known_mapping_accounts, known_product_accounts,
                 known_price_accounts, known_permission_account, record_index,
                 refresh_pc, refresh_error>>
codecVars == <<price_data, product_data, codec_result, codec_pc>>
vars == <<sortVars, ovVars, sendVars, syncVars, refreshVars, codecVars>>

None == "None"

(***************************************************************************)
(* Generic helpers                                                          *)
(***************************************************************************)
Range(s) == {s[i] : i \in 1..Len(s)}

\* All sequences over S of length at most n.
SeqsUpTo(S, n) == UNION {[1..k -> S] : k \in 0..n}

\* All orderings of the index set 1..n.
Perms(n) == {f \in [1..n -> 1..n] : \A i, j \in 1..n : f[i] = f[j] => i = j}

\* A Python dict assignment d[k] = v.
DictSet(d, k, v) == [x \in DOMAIN d \cup {k} |-> IF x = k THEN v ELSE d[x]]

EmptyDict == [x \in {} |-> None]

(***************************************************************************)
(* sort_mapping_account_keys                                                *)
(***************************************************************************)
\* PublicKey(0): the next key of the last mapping account.
ZeroKey == "11111111111111111111111111111111"

\* The pool of mapping account keys the inputs are drawn from.
MappingKeys == {"mapping_0", "mapping_1", "mapping_2", "mapping_3"}

\* The longest input list.
MaxAccounts == 3

MappingAccount == [public_key : MappingKeys,
                   next_mapping_account_key : MappingKeys \cup {ZeroKey}]

\* The lists sort_mapping_account_keys is called with: the values of the
\* dict _mapping_accounts, which is keyed by public key.
MappingAccountLists ==
    {l \in SeqsUpTo(MappingAccount, MaxAccounts) :
        \A i, j \in 1..Len(l) : l[i].public_key = l[j].public_key => i = j}

\* The first loop: state after the accounts 1..i have been visited.
RECURSIVE ScanAccounts(_, _)
ScanAccounts(accts, i) ==
    IF i = 0 THEN [previous_keys |-> EmptyDict, last_key |-> None]
    ELSE LET before == ScanAccounts(accts, i - 1)
             this_key == accts[i].public_key
             next_key == accts[i].next_mapping_account_key
         IN  [previous_keys |-> DictSet(before.previous_keys, next_key, this_key),
              last_key |-> IF next_key = ZeroKey THEN this_key
                           ELSE before.last_key]

\* One iteration of the while loop, with sorted_keys.append in place of
\* sorted_keys.insert(0, ...).
RECURSIVE TraverseAppending(_, _, _, _)
TraverseAppending(previous_keys, current, sorted_keys, n) ==
    IF n = Len(sorted_keys) THEN sorted_keys
    ELSE TraverseAppending(previous_keys,
                  IF current \in DOMAIN previous_keys
                  THEN previous_keys[current] ELSE current,
                  Append(sorted_keys, current), n)

\* The while loop: n is len(accounts).
RECURSIVE Traverse(_, _, _, _)
Traverse(previous_keys, current, sorted_keys, n) ==
    IF n = Len(sorted_keys) THEN sorted_keys
    ELSE Traverse(previous_keys,
                  IF current \in DOMAIN previous_keys
                  THEN previous_keys[current] ELSE current,
                  <<current>> \o sorted_keys, n)

\* The outcome of a call: an exception, or the returned list.
Raised(what) == [raised |-> TRUE, error |-> what, keys |-> <<>>]
Returned(keys) == [raised |-> FALSE, error |-> None, keys |-> keys]
NotCalled == [raised |-> FALSE, error |-> "not called", keys |-> <<>>]

\* The function without its "The linked list has no end" check: the walk
\* starts from None.
sort_without_end_check(accts) ==
    IF accts = <<>> THEN Returned(<<>>)
    ELSE LET scan == ScanAccounts(accts, Len(accts))
         IN  Returned(Traverse(scan.previous_keys, scan.last_key, <<>>, Len(accts)))

sort_mapping_account_keys(accts) ==
    IF accts = <<>> THEN Returned(<<>>)
    ELSE LET scan == ScanAccounts(accts, Len(accts))
         IN  IF scan.last_key = None
             THEN Raised("RuntimeError: The linked list has no end")
             ELSE Returned(Traverse(scan.previous_keys, scan.last_key,
                                    <<>>, Len(accts)))

SortInit ==
    /\ accounts \in MappingAccountLists
    /\ sort_result = NotCalled
    /\ sort_pc = "call"

SortIdle ==
    /\ accounts = <<>>
    /\ sort_result = NotCalled
    /\ sort_pc = "idle"

CallSort ==
    /\ sort_pc = "call"
    /\ sort_result' = sort_mapping_account_keys(accounts)
    /\ sort_pc' = "done"
    /\ UNCHANGED <<accounts, ovVars, sendVars,
                   syncVars, refreshVars, codecVars>>

(***************************************************************************)
(* program_sync.util.sort_mapping_account_keys                              *)
(***************************************************************************)
\* The accounts the function of program_sync is given: an account holds
\* MappingData with its next key, or data of another kind.
SyncPythAccount ==
    [public_key : MappingKeys, data : {"MappingData"},
     next_mapping_account_key : MappingKeys \cup {ZeroKey}]
    \cup [public_key : MappingKeys, data : {"ProductData"},
          next_mapping_account_key : {ZeroKey}]

\* The lists of accounts, one account per public key.
SyncAccountLists ==
    {l \in SeqsUpTo(SyncPythAccount, MaxAccounts) :
        \A i, j \in 1..Len(l) : l[i].public_key = l[j].public_key => i = j}

\* The for loop: previous_map and last_key after the accounts 1..i, or the
\* exception the loop has raised at one of them.
RECURSIVE ScanSyncAccounts(_, _)
ScanSyncAccounts(accts, i) ==
    IF i = 0 THEN [raised |-> FALSE, previous_map |-> EmptyDict, last_key |-> None]
    ELSE LET before == ScanSyncAccounts(accts, i - 1)
             this_key == accts[i].public_key
             next_key == accts[i].next_mapping_account_key
         IN  IF before.raised THEN before
             ELSE IF accts[i].data # "MappingData"
             THEN [raised |-> TRUE, previous_map |-> before.previous_map,
                   last_key |-> before.last_key]
             ELSE [raised |-> FALSE,
                   previous_map |-> DictSet(before.previous_map, next_key, this_key),
                   last_key |-> IF next_key = ZeroKey THEN this_key
                                ELSE before.last_key]

\* The while loop: sorted_keys.insert(0, current), then
\* current = previous_map[current], which raises KeyError for a key that is
\* the next key of no account; the length is tested before the next pass.
RECURSIVE WalkBack(_, _, _, _)
WalkBack(previous_map, current, sorted_keys, n) ==
    IF Len(sorted_keys) = n THEN Returned(sorted_keys)
    ELSE IF current \notin DOMAIN previous_map THEN Raised("KeyError")
    ELSE WalkBack(previous_map, previous_map[current], <<current>> \o sorted_keys, n)

program_sync_sort_mapping_account_keys(accts) ==
    LET scan == ScanSyncAccounts(accts, Len(accts))
    IN  IF scan.raised THEN Raised("RuntimeError: Not a mapping account")
        ELSE IF scan.last_key = None
        THEN Raised("RuntimeError: The mapping account linked list has no end")
        ELSE WalkBack(scan.previous_map, scan.last_key, <<>>, Len(accts))

SyncSortInit ==
    /\ accounts \in SyncAccountLists
    /\ sort_result = NotCalled
    /\ sort_pc = "sync_call"

CallSyncSort ==
    /\ sort_pc = "sync_call"
    /\ sort_result' = program_sync_sort_mapping_account_keys(accounts)
    /\ sort_pc' = "sync_done"
    /\ UNCHANGED <<accounts, ovVars, sendVars,
                   syncVars, refreshVars, codecVars>>

(***************************************************************************)
(* apply_overrides                                                          *)
(***************************************************************************)
Symbols == {"BTCUSD", "AAPL"}
AccountTypes == {"price", "ema"}
Networks == {"localhost", "pythnet", "mainnet-beta"}
\* The networks an overrides file of the model mentions.
OverrideNetworks == {"localhost", "pythnet"}
PublisherLists == {<<>>, <<"random">>}

\* All dicts with keys among K and values in V.
Dicts(K, V) == UNION {[D -> V] : D \in SUBSET K}

ReferencePermissionsSet == Dicts(Symbols, Dicts(AccountTypes, PublisherLists))
ReferenceOverridesSet == Dicts(OverrideNetworks, Dicts(Symbols, BOOLEAN))

\* ref_overrides.get(network, {})
NetworkOverrides(overrides, net) ==
    IF net \in DOMAIN overrides THEN overrides[net] ELSE EmptyDict

\* The branch test without its "not": the enabled symbols are emptied.
apply_overrides_inverted(permissions, overrides, net) ==
    LET network_overrides == NetworkOverrides(overrides, net)
    IN  [key \in DOMAIN permissions |->
            IF key \in DOMAIN network_overrides /\ network_overrides[key]
            THEN [k \in DOMAIN permissions[key] |-> <<>>]
            ELSE permissions[key]]

apply_overrides(permissions, overrides, net) ==
    LET network_overrides == NetworkOverrides(overrides, net)
    IN  [key \in DOMAIN permissions |->
            IF key \in DOMAIN network_overrides /\ ~network_overrides[key]
            THEN [k \in DOMAIN permissions[key] |-> <<>>]
            ELSE permissions[key]]

OvInit ==
    /\ ref_permissions \in ReferencePermissionsSet
    /\ ref_overrides \in ReferenceOverridesSet
    /\ network \in Networks
    /\ arg_permissions = ref_permissions
    /\ arg_overrides = ref_overrides
    /\ overridden_permissions = EmptyDict
    /\ overridden_twice = EmptyDict
    /\ ov_pc = "call"

OvIdle ==
    /\ ref_permissions = EmptyDict
    /\ ref_overrides = EmptyDict
    /\ network = "localhost"
    /\ arg_permissions = EmptyDict
    /\ arg_overrides = EmptyDict
    /\ overridden_permissions = EmptyDict
    /\ overridden_twice = EmptyDict
    /\ ov_pc = "idle"

\* A call that empties the publisher lists in the caller's dict itself
\* (value[k] = [] in place) and returns that dict.
ApplyOverridesInPlace ==
    /\ ov_pc = "call"
    /\ overridden_permissions' = apply_overrides(ref_permissions, ref_overrides, network)
    /\ ref_permissions' = overridden_permissions'
    /\ ov_pc' = "once"
    /\ UNCHANGED <<ref_overrides, network, arg_permissions, arg_overrides,
                   overridden_twice, sortVars, sendVars,
                   syncVars, refreshVars, codecVars>>

\* result = apply_overrides(ref_permissions, ref_overrides, network): the
\* function builds a new dict and assigns to neither argument.
ApplyOverrides ==
    /\ ov_pc = "call"
    /\ overridden_permissions' = apply_overrides(ref_permissions, ref_overrides, network)
    /\ ov_pc' = "once"
    /\ UNCHANGED <<ref_permissions, ref_overrides, network, arg_permissions,
                   arg_overrides, overridden_twice, sortVars, sendVars,
                   syncVars, refreshVars, codecVars>>

\* apply_overrides(result, ref_overrides, network): the function applied to
\* its own result.
ApplyOverridesAgain ==
    /\ ov_pc = "once"
    /\ overridden_twice' = apply_overrides(overridden_permissions, ref_overrides, network)
    /\ ov_pc' = "twice"
    /\ UNCHANGED <<ref_permissions, ref_overrides, network, arg_permissions,
                   arg_overrides, overridden_permissions, sortVars, sendVars,
                   syncVars, refreshVars, codecVars>>

(***************************************************************************)
(* Instructions (instructions.py, solana.system_program)                    *)
(***************************************************************************)
SYS_PROGRAM_ID == "system_program"
ProgramKey == "oracle_program"

\* The byte length of the strings that occur in product metadata.
Utf8Len(str) ==
    CASE str = "symbol" -> 6
      [] str = "base" -> 4
      [] str = "d1" -> 2
      [] str = "d2" -> 2
      [] str = "d3" -> 2
      [] str = "d4" -> 2
      [] str = "d5" -> 2
      [] str = "Crypto.BTC/USD" -> 14
      [] str = "Crypto.XBT/USD" -> 14
      [] str = "Equity.US.AAPL/USD" -> 18
      [] str = "BTC" -> 3
      [] str = "AAPL" -> 4
      [] str = "text255" -> 255
      [] str = "text175" -> 175
      [] OTHER -> 0

RECURSIVE SumOver(_, _)
SumOver(S, f) ==
    IF S = {} THEN 0
    ELSE LET x == CHOOSE y \in S : TRUE IN f[x] + SumOver(S \ {x}, f)

\* len(encode_product_metadata(data)): per pair one length byte, the key,
\* one length byte, the value.
EncodedMetadataLen(data) ==
    SumOver(DOMAIN data,
            [key \in DOMAIN data |-> 1 + Utf8Len(key) + 1 + Utf8Len(data[key])])

AccountMeta(pubkey, is_signer, is_writable) ==
    [pubkey |-> pubkey, is_signer |-> is_signer, is_writable |-> is_writable]

\* A TransactionInstruction: its command, program id, account metas and the
\* length of its data, with the command's parameters kept beside them.
TransactionInstruction(command, program_id, keys, data_len, value, metadata, publisher) ==
    [command |-> command, program_id |-> program_id, keys |-> keys,
     data_len |-> data_len, value |-> value, metadata |-> metadata,
     publisher |-> publisher]

\* system_program.create_account: u32 index, u64 lamports, u64 space, owner.
create_account(from_pubkey, new_account_pubkey, space, program_id) ==
    TransactionInstruction("create_account", SYS_PROGRAM_ID,
        <<AccountMeta(from_pubkey, TRUE, TRUE),
          AccountMeta(new_account_pubkey, TRUE, TRUE)>>,
        4 + 8 + 8 + 32, space, EmptyDict, None)

init_mapping(program_key, funding_key, mapping_key) ==
    TransactionInstruction("init_mapping", program_key,
        <<AccountMeta(funding_key, TRUE, TRUE),
          AccountMeta(mapping_key, TRUE, TRUE)>>,
        4 + 4, 0, EmptyDict, None)

add_product(program_key, funding_key, mapping_key, new_product_key) ==
    TransactionInstruction("add_product", program_key,
        <<AccountMeta(funding_key, TRUE, TRUE),
          AccountMeta(mapping_key, TRUE, TRUE),
          AccountMeta(new_product_key, TRUE, TRUE)>>,
        4 + 4, 0, EmptyDict, None)

update_product(program_key, funding_key, product_key, product_metadata) ==
    TransactionInstruction("update_product", program_key,
        <<AccountMeta(funding_key, TRUE, TRUE),
          AccountMeta(product_key, TRUE, TRUE)>>,
        4 + 4 + EncodedMetadataLen(product_metadata), 0, product_metadata, None)

\* add_price that leaves the exponent at zero.
add_price_without_exponent(program_key, funding_key, product_key, new_price_key, exponent) ==
    TransactionInstruction("add_price", program_key,
        <<AccountMeta(funding_key, TRUE, TRUE),
          AccountMeta(product_key, TRUE, TRUE),
          AccountMeta(new_price_key, TRUE, TRUE)>>,
        4 + 4 + 4 + 4, 0, EmptyDict, None)

add_price(program_key, funding_key, product_key, new_price_key, exponent) ==
    TransactionInstruction("add_price", program_key,
        <<AccountMeta(funding_key, TRUE, TRUE),
          AccountMeta(product_key, TRUE, TRUE),
          AccountMeta(new_price_key, TRUE, TRUE)>>,
        4 + 4 + 4 + 4, exponent, EmptyDict, None)

(***************************************************************************)
(* ProgramAdmin.send_transaction                                            *)
(***************************************************************************)
\* solana.transaction.PACKET_DATA_SIZE and SIG_LENGTH.
PACKET_DATA_SIZE == 1232
SIG_LENGTH == 64

\* len(shortvec.encode_length(n))
ShortvecLen(n) == IF n < 128 THEN 1 ELSE IF n < 16384 THEN 2 ELSE 3

Prefix(list, n) == SubSeq(list, 1, n)

\* list[n - 1:], the last instruction taken once more.
SuffixOneShort(list, n) == SubSeq(list, n, Len(list))

\* list[n + 1:], one instruction too far.
SuffixOffByOne(list, n) == SubSeq(list, n + 2, Len(list))

\* list[n:]
Suffix(list, n) == SubSeq(list, n + 1, Len(list))

\* The public keys some instruction of the list marks is_signer.
InstructionSigners(ixs) ==
    UNION {{ixs[i].keys[j].pubkey :
                j \in {b \in 1..Len(ixs[i].keys) : ixs[i].keys[b].is_signer}} :
           i \in 1..Len(ixs)}

\* The keys that must sign a transaction: its fee payer and every account
\* an instruction marks is_signer.
RequiredSigners(fee_payer, ixs) == {fee_payer} \cup InstructionSigners(ixs)

\* The account keys of the compiled message: the fee payer, every account
\* of every instruction and every program id, each once.
MessageAccountKeys(fee_payer, ixs) ==
    {fee_payer} \cup {ixs[i].program_id : i \in 1..Len(ixs)} \cup
    UNION {{ixs[i].keys[j].pubkey : j \in 1..Len(ixs[i].keys)} :
           i \in 1..Len(ixs)}

\* One compiled instruction: program id index, account indexes, data.
CompiledInstructionSize(ix) ==
    1 + ShortvecLen(Len(ix.keys)) + Len(ix.keys)
      + ShortvecLen(ix.data_len) + ix.data_len

RECURSIVE InstructionsSize(_)
InstructionsSize(ixs) ==
    IF ixs = <<>> THEN 0
    ELSE CompiledInstructionSize(Head(ixs)) + InstructionsSize(Tail(ixs))

\* len(transaction.serialize_message()): header, account keys, recent
\* blockhash, instructions.
MessageSize(fee_payer, ixs) ==
    LET n == Cardinality(MessageAccountKeys(fee_payer, ixs))
    IN  3 + ShortvecLen(n) + 32 * n + 32
          + ShortvecLen(Len(ixs)) + InstructionsSize(ixs)

compute_transaction_size(fee_payer, ixs) ==
    LET signatures == Cardinality(RequiredSigners(fee_payer, ixs))
    IN  ShortvecLen(signatures) + signatures * SIG_LENGTH
          + MessageSize(fee_payer, ixs)

\* The loop test with PACKET_DATA_SIZE in place of PACKET_DATA_SIZE / 2.
RoomForMoreUpToLimit(size) == size < PACKET_DATA_SIZE

\* compute_transaction_size(transaction) < (PACKET_DATA_SIZE / 2)
RoomForMore(size) == 2 * size < PACKET_DATA_SIZE

\* A loop that never adds a second instruction.
FillWithOneInstruction(fee_payer, ixs, index) == index

\* The while loop: the value of ix_index when it ends, the transaction then
\* holding instructions[0:ix_index].
RECURSIVE FillTransaction(_, _, _)
FillTransaction(fee_payer, ixs, index) ==
    IF RoomForMore(compute_transaction_size(fee_payer, Prefix(ixs, index)))
       /\ index < Len(ixs)
    THEN FillTransaction(fee_payer, ixs, index + 1)
    ELSE index

\* Every provided keypair signs, referenced or not.
every_provided_signer(keypairs, ixs) == keypairs

\* The signers whose public key an accumulated instruction names as signer.
get_actual_signers(keypairs, ixs) ==
    SelectSeq(keypairs, LAMBDA keypair : keypair \in InstructionSigners(ixs))

\* The transaction a call with a non-empty list builds and serializes.
BuildTransaction(ixs, keypairs) ==
    LET fee_payer == keypairs[1]
        taken == Prefix(ixs, FillTransaction(fee_payer, ixs, 1))
    IN  [fee_payer |-> fee_payer,
         instructions |-> taken,
         signed_by |-> get_actual_signers(keypairs, taken),
         size |-> compute_transaction_size(fee_payer, taken)]

\* The instructions the batcher's inputs are drawn from: the product
\* sub-plan of one symbol, with metadata of three sizes.
MetadataSmall == ("symbol" :> "Crypto.BTC/USD") @@ ("base" :> "BTC")
MetadataMedium == ("d1" :> "text255") @@ ("d2" :> "text175")
MetadataLarge == ("d1" :> "text255") @@ ("d2" :> "text255") @@ ("d3" :> "text255")
                  @@ ("d4" :> "text175")
PRODUCT_ACCOUNT_SIZE == 512

InstructionPool ==
    {create_account("funding", "product_BTCUSD", PRODUCT_ACCOUNT_SIZE, ProgramKey),
     add_product(ProgramKey, "funding", "mapping_0", "product_BTCUSD"),
     update_product(ProgramKey, "funding", "product_BTCUSD", MetadataSmall),
     update_product(ProgramKey, "funding", "product_BTCUSD", MetadataMedium),
     update_product(ProgramKey, "funding", "product_BTCUSD", MetadataLarge),
     add_price(ProgramKey, "funding", "product_BTCUSD", "price_BTCUSD", -8)}

\* The longest instruction list passed to send_transaction.
MaxInstructions == 4

SendInit ==
    /\ send_input \in SeqsUpTo(InstructionPool, MaxInstructions)
    /\ instructions = send_input
    /\ signers = <<"funding", "mapping_0", "product_BTCUSD", "price_BTCUSD">>
    /\ ix_index = 0
    /\ in_flight = <<>>
    /\ submitted = <<>>
    /\ send_pc = "call"

SendIdle ==
    /\ send_input = <<>>
    /\ instructions = <<>>
    /\ signers = <<>>
    /\ ix_index = 0
    /\ in_flight = <<>>
    /\ submitted = <<>>
    /\ send_pc = "idle"

\* if not instructions: return
SendNothing ==
    /\ send_pc = "call"
    /\ instructions = <<>>
    /\ send_pc' = "returned"
    /\ UNCHANGED <<send_input, instructions, signers, ix_index, in_flight,
                   submitted, sortVars, ovVars,
                   syncVars, refreshVars, codecVars>>

\* recent_blockhash raises: the call ends before a transaction is built.
RecentBlockhashFails ==
    /\ send_pc = "call"
    /\ instructions # <<>>
    /\ send_pc' = "raised"
    /\ UNCHANGED <<send_input, instructions, signers, ix_index, in_flight,
                   submitted, sortVars, ovVars,
                   syncVars, refreshVars, codecVars>>

\* transaction.serialize() raises for a transaction larger than a packet (the
\* check older versions of the library make; newer ones serialize it, and
\* SubmitTransaction covers them).
SerializeFails ==
    /\ send_pc = "call"
    /\ instructions # <<>>
    /\ BuildTransaction(instructions, signers).size > PACKET_DATA_SIZE
    /\ send_pc' = "raised"
    /\ UNCHANGED <<send_input, instructions, signers, ix_index, in_flight,
                   submitted, sortVars, ovVars,
                   syncVars, refreshVars, codecVars>>

\* The transaction is built from a prefix of the list and handed to
\* send_raw_transaction, which awaits its confirmation.
SubmitTransaction ==
    /\ send_pc = "call"
    /\ instructions # <<>>
    /\ in_flight' = <<BuildTransaction(instructions, signers)>>
    /\ ix_index' = Len(BuildTransaction(instructions, signers).instructions)
    /\ submitted' = Append(submitted, BuildTransaction(instructions, signers))
    /\ send_pc' = "in_flight"
    /\ UNCHANGED <<send_input, instructions, signers, sortVars, ovVars,
                   syncVars, refreshVars, codecVars>>

\* The transaction is confirmed: the call recurses on the remaining
\* instructions, or returns when there are none.
TransactionConfirmed ==
    /\ send_pc = "in_flight"
    /\ in_flight' = <<>>
    /\ instructions' = Suffix(instructions, ix_index)
    /\ ix_index' = 0
    /\ send_pc' = IF instructions' = <<>> THEN "returned" ELSE "call"
    /\ UNCHANGED <<send_input, signers, submitted, sortVars, ovVars,
                   syncVars, refreshVars, codecVars>>

\* send_raw_transaction raises: the exception leaves send_transaction and
\* the remaining instructions are not sent.
TransactionFails ==
    /\ send_pc = "in_flight"
    /\ in_flight' = <<>>
    /\ send_pc' = "raised"
    /\ UNCHANGED <<send_input, instructions, signers, ix_index, submitted,
                   sortVars, ovVars,
                   syncVars, refreshVars, codecVars>>

(***************************************************************************)
(* The network: accounts and what the oracle program does to them           *)
(***************************************************************************)
\* The order in which ref_permissions.items() yields the symbols.
SymbolOrder == <<"BTCUSD", "AAPL">>

\* The labels of a symbol's keypairs.  The keypair stored under a label has
\* the label as its public key, so a label names one account for good.
ProductLabel(jump_symbol) == "product_" \o jump_symbol
PriceLabel(jump_symbol) == "price_" \o jump_symbol

\* The program-derived addresses upd_permissions computes.
PermissionsAccount == "permissions_account"
OracleProgramDataKey == "oracle_program_data"

ChainKeys ==
    {"mapping_0", "mapping_1", PermissionsAccount}
        \cup {ProductLabel(s) : s \in Symbols} \cup {PriceLabel(s) : s \in Symbols}

\* An account of the program as parse_account decodes it; kind is "absent"
\* for a key with no account and "uninitialized" for an account that was
\* created and holds no Pyth header yet (parse_data returns None for it).
NoAccount(key) ==
    [public_key |-> key, kind |-> "absent", space |-> 0,
     next_mapping_account_key |-> ZeroKey, product_account_keys |-> <<>>,
     first_price_account_key |-> ZeroKey, metadata |-> EmptyDict,
     exponent |-> 0, min_publishers |-> 0, price_components |-> <<>>,
     master_authority |-> None, data_curation_authority |-> None,
     security_authority |-> None]

\* The minimum number of publishers the oracle program gives a new price account.
DEFAULT_MIN_PUBLISHERS == 20

\* The effect of one instruction on the accounts once its transaction is
\* confirmed.
ApplyInstruction(c, ix) ==
    LET key(i) == ix.keys[i].pubkey
    IN  CASE ix.command = "create_account" ->
                [c EXCEPT ![key(2)] = [NoAccount(key(2)) EXCEPT
                                          !.kind = "uninitialized",
                                          !.space = ix.value]]
          [] ix.command = "init_mapping" ->
                [c EXCEPT ![key(2)].kind = "mapping"]
          [] ix.command = "add_product" ->
                [c EXCEPT ![key(2)].product_account_keys = Append(@, key(3)),
                          ![key(3)].kind = "product"]
          [] ix.command = "update_product" ->
                [c EXCEPT ![key(2)].metadata = ix.metadata]
          [] ix.command = "add_price" ->
                [c EXCEPT ![key(2)].first_price_account_key = key(3),
                          ![key(3)].kind = "price",
                          ![key(3)].exponent = ix.value,
                          ![key(3)].min_publishers = DEFAULT_MIN_PUBLISHERS]
          [] ix.command = "set_minimum_publishers" ->
                [c EXCEPT ![key(2)].min_publishers = ix.value]
          [] ix.command = "add_publisher" ->
                [c EXCEPT ![key(2)].price_components =
                              IF ix.publisher \in Range(@) THEN @
                              ELSE Append(@, ix.publisher)]
          [] ix.command = "del_publisher" ->
                [c EXCEPT ![key(2)].price_components =
                              SelectSeq(@, LAMBDA k : k # ix.publisher)]
          [] ix.command = "upd_permissions" ->
                [c EXCEPT ![key(3)].kind = "permission",
                          ![key(3)].master_authority =
                              ix.metadata["master_authority"],
                          ![key(3)].data_curation_authority =
                              ix.metadata["data_curation_authority"],
                          ![key(3)].security_authority =
                              ix.metadata["security_authority"]]
          [] OTHER -> c

RECURSIVE ApplyInstructions(_, _)
ApplyInstructions(c, ixs) ==
    IF ixs = <<>> THEN c
    ELSE ApplyInstructions(ApplyInstruction(c, Head(ixs)), Tail(ixs))

\* util.account_exists: whether the network holds an account under the key.
account_exists(c, key) == c[key].kind # "absent"

(***************************************************************************)
(* The remaining instruction builders (instructions.py)                     *)
(***************************************************************************)
\* The instruction built with the program's default in place of the argument.
set_default_minimum_publishers(program_key, funding_key, price_account_key, minimum_publishers) ==
    TransactionInstruction("set_minimum_publishers", program_key,
        <<AccountMeta(funding_key, TRUE, TRUE),
          AccountMeta(price_account_key, TRUE, TRUE)>>,
        4 + 4 + 4, DEFAULT_MIN_PUBLISHERS, EmptyDict, None)

set_minimum_publishers(program_key, funding_key, price_account_key, minimum_publishers) ==
    TransactionInstruction("set_minimum_publishers", program_key,
        <<AccountMeta(funding_key, TRUE, TRUE),
          AccountMeta(price_account_key, TRUE, TRUE)>>,
        4 + 4 + 4, minimum_publishers, EmptyDict, None)

toggle_publisher(program_key, funding_key, price_account_key, publisher_key, status) ==
    TransactionInstruction(IF status THEN "add_publisher" ELSE "del_publisher",
        program_key,
        <<AccountMeta(funding_key, TRUE, TRUE),
          AccountMeta(price_account_key, TRUE, TRUE)>>,
        4 + 4 + 32, 0, EmptyDict, publisher_key)

upd_permissions(program_key, upgrade_authority, refdata) ==
    TransactionInstruction("upd_permissions", program_key,
        <<AccountMeta(upgrade_authority, TRUE, TRUE),
          AccountMeta(OracleProgramDataKey, FALSE, FALSE),
          AccountMeta(PermissionsAccount, FALSE, TRUE),
          AccountMeta(SYS_PROGRAM_ID, FALSE, FALSE)>>,
        4 + 4 + 32 + 32 + 32, 0, refdata, None)

(***************************************************************************)
(* Key directory (keys.py)                                                  *)
(***************************************************************************)
\* A load_keypair that generates every missing keypair.
load_or_generate_keypair(label, keys, generate) ==
    [raised |-> FALSE, key_dir |-> keys \cup {label}]

\* load_keypair(label, generate): raises when the file is missing and no key
\* may be generated; generate_keypair adds the file and the label otherwise.
load_keypair(label, keys, generate) ==
    [raised |-> label \notin keys /\ ~generate,
     key_dir |-> IF label \notin keys /\ generate THEN keys \cup {label} ELSE keys]

(***************************************************************************)
(* ProgramAdmin.refresh_program_accounts                                    *)
(***************************************************************************)
reference_pairs ==
    {<<"gSbePebfvPy7tRqimPoVecS2UsBvYv46ynrzWocc92s",
       "BmA9Z6FjioHJPpjT39QazZyhDRUdZy2ezwx4GiDdE2u2">>,
     <<"8tfDNiaEyrV6Q1U4DEXrEigs9DoDtkugzFbybENEbCDz",
       "AFmdnt9ng1uVxqCmqwQJDAYC5cKTkw8gJKSM5PnzuF6z">>,
     <<"FsJ3A3u2vn5cTVofAjvy6y5kwABJAqYWpe4975bi2epH",
       "AHtgzX45WTKfkPG53L6WYhGEXwQkN1BVknET3sVsLL8J">>}

\* The keys of the fetched accounts that parse_account decodes to the kind.
Fetched(c, kind) == {key \in ChainKeys : c[key].kind = kind}

\* Every fetched mapping account is stored, whatever the program.
FetchedMappingsOfAnyProgram(c, tm) == {key \in ChainKeys : c[key].kind = "mapping"}

\* The mapping accounts the loop stores.
FetchedMappings(c, tm) ==
    {key \in Fetched(c, "mapping") : tm \/ <<ProgramKey, key>> \in reference_pairs}

\* self._accounts[account.public_key] = account, for every account of keys;
\* the entries of earlier fetches stay.
StoreAccounts(working, c, keys) ==
    [key \in DOMAIN working \cup keys |-> IF key \in keys THEN c[key] ELSE working[key]]

(***************************************************************************)
(* The four planners of ProgramAdmin                                        *)
(***************************************************************************)
PlanRaised(error, keys) ==
    [raised |-> TRUE, error |-> error, instructions |-> <<>>, signers |-> <<>>,
     key_dir |-> keys]
PlanReturned(ixs, keypairs, keys) ==
    [raised |-> FALSE, error |-> None, instructions |-> ixs, signers |-> keypairs,
     key_dir |-> keys]

\* list(d.values()), in some order of the keys.
RECURSIVE DictValues(_)
DictValues(d) ==
    IF DOMAIN d = {} THEN <<>>
    ELSE LET key == CHOOSE k \in DOMAIN d : TRUE
         IN  <<d[key]>> \o DictValues([k \in DOMAIN d \ {key} |-> d[k]])

\* A for loop over a set that stops after the first element.
FirstItemOnly(S) == IF S = {} THEN <<>> ELSE <<CHOOSE y \in S : TRUE>>

\* The elements of a set in the order a for loop over it visits them.
RECURSIVE SetItems(_)
SetItems(S) ==
    IF S = {} THEN <<>>
    ELSE LET x == CHOOSE y \in S : TRUE IN <<x>> \o SetItems(S \ {x})

\* A comparison that looks at the master authority only.
matches_master_authority(account, refdata) ==
    refdata["master_authority"] = account.master_authority

matches_reference_data(account, refdata) ==
    /\ refdata["master_authority"] = account.master_authority
    /\ refdata["data_curation_authority"] = account.data_curation_authority
    /\ refdata["security_authority"] = account.security_authority

sync_authority_permissions_instructions(account, refdata, keys) ==
    IF account.kind = "absent" \/ ~matches_reference_data(account, refdata)
    THEN IF load_keypair("upgrade_authority", keys, FALSE).raised
         THEN PlanRaised("RuntimeError", keys)
         ELSE PlanReturned(<<upd_permissions(ProgramKey, "upgrade_authority", refdata)>>,
                           <<"upgrade_authority">>, keys)
    ELSE PlanReturned(<<>>, <<>>, keys)

MAPPING_ACCOUNT_SIZE == 20536
PRICE_ACCOUNT_V1_SIZE == 3312
PRICE_ACCOUNT_V2_SIZE == 12576

sync_mapping_instructions(mappings, c, keys, generate) ==
    LET mapping_chain == sort_mapping_account_keys(DictValues(mappings))
        mapping_0 == load_keypair("mapping_0", keys, generate)
    IN  IF mapping_chain.raised THEN PlanRaised(mapping_chain.error, keys)
        ELSE IF load_keypair("funding", keys, FALSE).raised
        THEN PlanRaised("RuntimeError", keys)
        ELSE IF mapping_0.raised THEN PlanRaised("RuntimeError", keys)
        ELSE PlanReturned(
                IF mapping_chain.keys = <<>>
                THEN (IF ~account_exists(c, "mapping_0")
                      THEN <<create_account("funding", "mapping_0",
                                            MAPPING_ACCOUNT_SIZE, ProgramKey)>>
                      ELSE <<>>)
                     \o <<init_mapping(ProgramKey, "funding", "mapping_0")>>
                ELSE <<>>,
                <<"funding", "mapping_0">>, mapping_0.key_dir)

\* A comparison that passes over the reference keys the account lacks.
same_known_metadata(reference, onchain) ==
    \A key \in DOMAIN reference \cap DOMAIN onchain : onchain[key] = reference[key]

\* The loop over product["metadata"].items(): no reference key is missing
\* from the decoded metadata or has another value there.
same_product_metadata(reference, onchain) ==
    \A key \in DOMAIN reference : key \in DOMAIN onchain /\ onchain[key] = reference[key]

sync_product_instructions(product, generate, v2, mappings, products, prices, c, keys) ==
    LET mapping_chain == sort_mapping_account_keys(DictValues(mappings))
        mapping_key == mapping_chain.keys[Len(mapping_chain.keys)]
        product_key == ProductLabel(product.jump_symbol)
        price_key == PriceLabel(product.jump_symbol)
        product_keypair == load_keypair(product_key, keys, generate)
        price_keypair == load_keypair(price_key, product_keypair.key_dir, generate)
        product_account == product_key \in DOMAIN products
        price_account == price_key \in DOMAIN prices
        price_alloc_size == IF v2 THEN PRICE_ACCOUNT_V2_SIZE ELSE PRICE_ACCOUNT_V1_SIZE
        new_product ==
            IF ~product_account
            THEN (IF ~account_exists(c, product_key)
                  THEN <<create_account("funding", product_key,
                                        PRODUCT_ACCOUNT_SIZE, ProgramKey)>>
                  ELSE <<>>)
                 \o <<add_product(ProgramKey, "funding", mapping_key, product_key),
                      update_product(ProgramKey, "funding", product_key,
                                     product.metadata)>>
            ELSE <<>>
        new_price ==
            IF ~price_account
            THEN (IF ~account_exists(c, price_key)
                  THEN <<create_account("funding", price_key, price_alloc_size,
                                        ProgramKey)>>
                  ELSE <<>>)
                 \o <<add_price(ProgramKey, "funding", product_key, price_key,
                                product.exponent)>>
            ELSE <<>>
        new_metadata ==
            IF product_account /\ price_account
               /\ ~same_product_metadata(product.metadata, products[product_key].metadata)
            THEN <<update_product(ProgramKey, "funding", product_key, product.metadata)>>
            ELSE <<>>
    IN  IF load_keypair("funding", keys, FALSE).raised
        THEN PlanRaised("RuntimeError", keys)
        ELSE IF mapping_chain.raised THEN PlanRaised(mapping_chain.error, keys)
        ELSE IF mapping_chain.keys = <<>> THEN PlanRaised("IndexError", keys)
        ELSE IF mapping_key \notin keys THEN PlanRaised("FileNotFoundError", keys)
        ELSE IF product_keypair.raised THEN PlanRaised("RuntimeError", keys)
        ELSE IF price_keypair.raised THEN PlanRaised("RuntimeError", keys)
        ELSE PlanReturned(new_product \o new_price \o new_metadata,
                          <<"funding", mapping_key, product_key, price_key>>,
                          price_keypair.key_dir)

sync_price_instructions(reference_product, reference_publishers, reference_permissions, prices, keys) ==
    LET jump_symbol == reference_product.jump_symbol
        price_key == PriceLabel(jump_symbol)
        price_account == prices[price_key]
        min_publishers ==
            IF reference_product.min_publishers # <<>>
               /\ price_account.min_publishers # reference_product.min_publishers[1]
            THEN <<set_minimum_publishers(ProgramKey, "funding", price_key,
                                          reference_product.min_publishers[1])>>
            ELSE <<>>
        current_publisher_keys == Range(price_account.price_components)
        new_publisher_names == Range(reference_permissions[jump_symbol]["price"])
        new_publisher_keys ==
            {reference_publishers.keys[name] : name \in new_publisher_names}
        publishers_to_add == SetItems(new_publisher_keys \ current_publisher_keys)
        publishers_to_remove == SetItems(current_publisher_keys \ new_publisher_keys)
    IN  IF load_keypair("funding", keys, FALSE).raised
        THEN PlanRaised("RuntimeError", keys)
        ELSE IF load_keypair(price_key, keys, FALSE).raised
        THEN PlanRaised("RuntimeError", keys)
        ELSE IF price_key \notin DOMAIN prices THEN PlanRaised("KeyError", keys)
        ELSE IF "price" \notin DOMAIN reference_permissions[jump_symbol]
        THEN PlanRaised("KeyError", keys)
        ELSE PlanReturned(
                min_publishers
                \o [i \in 1..Len(publishers_to_remove) |->
                        toggle_publisher(ProgramKey, "funding", price_key,
                                         publishers_to_remove[i], FALSE)]
                \o [i \in 1..Len(publishers_to_add) |->
                        toggle_publisher(ProgramKey, "funding", price_key,
                                         publishers_to_add[i], TRUE)],
                <<"funding", price_key>>, keys)

(***************************************************************************)
(* The arguments of sync and the states it starts from                      *)
(***************************************************************************)
MetadataBTC == ("symbol" :> "Crypto.BTC/USD") @@ ("base" :> "BTC")
MetadataBTCStale == ("symbol" :> "Crypto.XBT/USD") @@ ("base" :> "BTC")
MetadataBTCShort == ("symbol" :> "Crypto.BTC/USD")
MetadataAAPL == ("symbol" :> "Equity.US.AAPL/USD") @@ ("base" :> "AAPL")

\* Optional[int]: None is the empty sequence, n the sequence <<n>>.
BTC_USD(min_publishers) ==
    [jump_symbol |-> "BTCUSD", exponent |-> -8, metadata |-> MetadataBTC,
     min_publishers |-> min_publishers]
AAPL_USD ==
    [jump_symbol |-> "AAPL", exponent |-> -5, metadata |-> MetadataAAPL,
     min_publishers |-> <<>>]

ReferenceProductsSet ==
    {("BTCUSD" :> BTC_USD(m)) @@ ("AAPL" :> AAPL_USD) : m \in {<<>>, <<7>>}}

ref_publishers ==
    [keys |-> ("publisher_a" :> "key_a") @@ ("publisher_b" :> "key_b")
              @@ ("publisher_c" :> "key_c"),
     names |-> ("key_a" :> "publisher_a") @@ ("key_b" :> "publisher_b")
               @@ ("key_c" :> "publisher_c")]

\* permissions.json before the overrides: no symbol, BTCUSD, or both.
SyncPermissionsSet ==
    {EmptyDict}
    \cup {("BTCUSD" :> ("price" :> btc)) : btc \in {<<>>, <<"publisher_b", "publisher_c">>}}
    \cup {("BTCUSD" :> ("price" :> btc)) @@ ("AAPL" :> ("price" :> <<"publisher_b">>)) :
            btc \in {<<>>, <<"publisher_b", "publisher_c">>}}

\* overrides.json: none, or AAPL disabled on this network.
SyncOverridesSet == {EmptyDict, ("localhost" :> ("AAPL" :> FALSE))}

AuthorityPermissions(master, data_curation, security) ==
    ("master_authority" :> master) @@ ("data_curation_authority" :> data_curation)
    @@ ("security_authority" :> security)

\* The key directory: the operator's two keypairs, or every keypair.
BaseKeys == {"funding", "upgrade_authority"}
AllKeys ==
    BaseKeys \cup {"mapping_0", "mapping_1"} \cup {ProductLabel(s) : s \in Symbols}
        \cup {PriceLabel(s) : s \in Symbols}

\* The accounts a symbol has on the network before the first run.
ProductOnChain(jump_symbol, metadata, has_price) ==
    [NoAccount(ProductLabel(jump_symbol)) EXCEPT
        !.kind = "product", !.space = PRODUCT_ACCOUNT_SIZE, !.metadata = metadata,
        !.first_price_account_key =
            IF has_price THEN PriceLabel(jump_symbol) ELSE ZeroKey]
PriceOnChain(jump_symbol, exponent, min_publishers, publisher_keys) ==
    [NoAccount(PriceLabel(jump_symbol)) EXCEPT
        !.kind = "price", !.space = PRICE_ACCOUNT_V2_SIZE, !.exponent = exponent,
        !.min_publishers = min_publishers, !.price_components = publisher_keys]

SymbolStates(jump_symbol) ==
    LET absent == <<NoAccount(ProductLabel(jump_symbol)), NoAccount(PriceLabel(jump_symbol))>>
    IN  IF jump_symbol = "BTCUSD"
        THEN {absent,
              <<[NoAccount(ProductLabel("BTCUSD")) EXCEPT
                    !.kind = "uninitialized", !.space = PRODUCT_ACCOUNT_SIZE],
                NoAccount(PriceLabel("BTCUSD"))>>,
              <<ProductOnChain("BTCUSD", MetadataBTCStale, FALSE),
                NoAccount(PriceLabel("BTCUSD"))>>,
              <<ProductOnChain("BTCUSD", MetadataBTC, TRUE),
                PriceOnChain("BTCUSD", -8, 5, <<"key_a", "key_b">>)>>,
              <<ProductOnChain("BTCUSD", MetadataBTCShort, TRUE),
                PriceOnChain("BTCUSD", -8, 7, <<"key_b", "key_c">>)>>}
        ELSE {absent,
              <<ProductOnChain("AAPL", MetadataAAPL, TRUE),
                PriceOnChain("AAPL", -5, DEFAULT_MIN_PUBLISHERS, <<"key_b">>)>>}

PermissionStates ==
    {NoAccount(PermissionsAccount),
     [NoAccount(PermissionsAccount) EXCEPT
        !.kind = "permission", !.master_authority = "funding",
        !.data_curation_authority = "funding", !.security_authority = "funding"],
     [NoAccount(PermissionsAccount) EXCEPT
        !.kind = "permission", !.master_authority = "funding",
        !.data_curation_authority = "funding", !.security_authority = "old_authority"]}

\* The two mapping accounts, head first.  The head lists the products
\* that exist; with no product it may be absent, created only, initialised,
\* or initialised and followed by a second, empty mapping account.
MappingStates(products) ==
    IF products # <<>>
    THEN {<<[NoAccount("mapping_0") EXCEPT
               !.kind = "mapping", !.space = MAPPING_ACCOUNT_SIZE,
               !.product_account_keys = products],
            NoAccount("mapping_1")>>}
    ELSE {<<NoAccount("mapping_0"), NoAccount("mapping_1")>>,
          <<[NoAccount("mapping_0") EXCEPT
               !.kind = "uninitialized", !.space = MAPPING_ACCOUNT_SIZE],
            NoAccount("mapping_1")>>,
          <<[NoAccount("mapping_0") EXCEPT
               !.kind = "mapping", !.space = MAPPING_ACCOUNT_SIZE],
            NoAccount("mapping_1")>>,
          <<[NoAccount("mapping_0") EXCEPT
               !.kind = "mapping", !.space = MAPPING_ACCOUNT_SIZE,
               !.next_mapping_account_key = "mapping_1"],
            [NoAccount("mapping_1") EXCEPT
               !.kind = "mapping", !.space = MAPPING_ACCOUNT_SIZE]>>}

\* The products a mapping account lists, given the symbols' accounts.
ListedProducts(btc, aapl) ==
    (IF btc[1].kind = "product" THEN <<ProductLabel("BTCUSD")>> ELSE <<>>)
    \o (IF aapl[1].kind = "product" THEN <<ProductLabel("AAPL")>> ELSE <<>>)

Chain(mapping, permission, btc, aapl) ==
    [key \in ChainKeys |->
        IF key = "mapping_0" THEN mapping[1]
        ELSE IF key = "mapping_1" THEN mapping[2]
        ELSE IF key = PermissionsAccount THEN permission
        ELSE IF key = ProductLabel("BTCUSD") THEN btc[1]
        ELSE IF key = PriceLabel("BTCUSD") THEN btc[2]
        ELSE IF key = ProductLabel("AAPL") THEN aapl[1]
        ELSE aapl[2]]

ChainStates ==
    UNION {{Chain(mapping, permission, symbols[1], symbols[2]) :
                mapping \in MappingStates(ListedProducts(symbols[1], symbols[2])),
                permission \in PermissionStates} :
           symbols \in SymbolStates("BTCUSD") \X SymbolStates("AAPL")}

\* The network holds nothing of the program yet.
EmptyChain == [key \in ChainKeys |-> NoAccount(key)]

(***************************************************************************)
(* ProgramAdmin.sync                                                        *)
(***************************************************************************)
\* The send_transaction calls of a run: the two sync awaits one after the
\* other, and one task per symbol in each of the two concurrent phases.
TaskIds == {<<"authority", "">>, <<"mapping", "">>} \cup ({"product", "price"} \X Symbols)

NoTask ==
    [status |-> "none", instructions |-> <<>>, signers |-> <<>>, in_flight |-> <<>>,
     sent |-> 0]
\* send_transaction(ixs, keypairs) has been called and has submitted nothing yet.
NewTask(ixs, keypairs) ==
    [status |-> "pending", instructions |-> ixs, signers |-> keypairs,
     in_flight |-> <<>>, sent |-> 0]

NoPlans ==
    [authority |-> <<>>, mapping |-> <<>>, product |-> [s \in Symbols |-> <<>>],
     price |-> [s \in Symbols |-> <<>>]]

\* The most invocations of sync on one ProgramAdmin.
MaxRuns == 2

workingVars == <<mapping_accounts, product_accounts, price_accounts,
                 authority_permission_account>>
argVars == <<ref_products, ref_authority_permissions, send_transactions,
             generate_keys, allocate_price_v2, test_mode, initial_chain>>
otherVars == <<sortVars, ovVars, sendVars, refreshVars, codecVars>>

\* The products, permissions and overrides files of one invocation.
SyncReferences ==
    {r \in [products : ReferenceProductsSet, permissions : SyncPermissionsSet,
            overrides : SyncOverridesSet] :
        /\ "BTCUSD" \notin DOMAIN r.permissions => r.products["BTCUSD"].min_publishers = <<>>
        /\ "AAPL" \notin DOMAIN r.permissions => r.overrides = EmptyDict}

\* A first deployment with any flags, or a deployed program with the
\* flags of an ordinary run, in test mode or outside it.
Scenario ==
    \/ /\ \A s \in Symbols : chain[ProductLabel(s)].kind = "absent"
       /\ chain[PermissionsAccount].kind = "absent"
       /\ chain["mapping_1"].kind = "absent"
    \/ /\ send_transactions /\ ~generate_keys /\ allocate_price_v2
       /\ key_dir = AllKeys

SyncInit ==
    /\ \E r \in SyncReferences :
        /\ ref_products = r.products
        /\ arg_permissions = r.permissions
        /\ ref_overrides = r.overrides
    /\ arg_overrides = ref_overrides
    /\ network = "localhost"
    \* parse_permissions_with_overrides: sync receives the overridden permissions
    /\ ref_permissions = apply_overrides(arg_permissions, ref_overrides, network)
    /\ overridden_permissions = EmptyDict
    /\ overridden_twice = EmptyDict
    /\ ov_pc = "idle"
    /\ ref_authority_permissions = AuthorityPermissions("funding", "funding", "funding")
    /\ chain \in ChainStates
    /\ initial_chain = chain
    /\ key_dir \in {BaseKeys, AllKeys, AllKeys \ {PriceLabel("AAPL")}}
    /\ test_mode \in BOOLEAN
    /\ send_transactions \in BOOLEAN
    /\ generate_keys \in BOOLEAN
    /\ allocate_price_v2 \in BOOLEAN
    /\ Scenario
    \* ProgramAdmin.__init__
    /\ mapping_accounts = EmptyDict
    /\ product_accounts = EmptyDict
    /\ price_accounts = EmptyDict
    /\ authority_permission_account = NoAccount(PermissionsAccount)
    \* the first invocation of sync
    /\ sync_instructions = <<>>
    /\ product_updates = FALSE
    /\ symbol_index = 0
    /\ transactions = [id \in TaskIds |-> NoTask]
    /\ sync_pc = "fetch"
    /\ sync_error = None
    /\ run = 1
    /\ phases = <<>>
    /\ fetches = <<>>
    /\ plans = NoPlans

SyncIdle ==
    /\ chain = EmptyChain
    /\ initial_chain = EmptyChain
    /\ key_dir = {}
    /\ test_mode = FALSE
    /\ mapping_accounts = EmptyDict
    /\ product_accounts = EmptyDict
    /\ price_accounts = EmptyDict
    /\ authority_permission_account = NoAccount(PermissionsAccount)
    /\ ref_products = EmptyDict
    /\ ref_authority_permissions = EmptyDict
    /\ send_transactions = FALSE
    /\ generate_keys = FALSE
    /\ allocate_price_v2 = FALSE
    /\ sync_instructions = <<>>
    /\ product_updates = FALSE
    /\ symbol_index = 0
    /\ transactions = [id \in TaskIds |-> NoTask]
    /\ sync_pc = "idle"
    /\ sync_error = None
    /\ run = 0
    /\ phases = <<>>
    /\ fetches = <<>>
    /\ plans = NoPlans

\* The phase a position of sync belongs to.
PhaseOf(pc) ==
    CASE pc \in {"authority", "send_authority"} -> "authority"
      [] pc \in {"mapping", "send_mapping", "refetch_mapping"} -> "mapping"
      [] pc \in {"products", "refetch_products"} -> "product"
      [] pc = "prices" -> "price"
      [] OTHER -> ""

\* sync moves on to the position next.
Goto(next) ==
    /\ sync_pc' = next
    /\ phases' = IF PhaseOf(next) # "" /\ PhaseOf(next) # PhaseOf(sync_pc)
                 THEN Append(phases, PhaseOf(next)) ELSE phases
    /\ UNCHANGED sync_error

\* An exception leaves sync.
Raise(error) ==
    /\ sync_pc' = "raised"
    /\ sync_error' = error
    /\ UNCHANGED phases

\* for jump_symbol, _price_account_map in ref_permissions.items()
Items == SelectSeq(SymbolOrder, LAMBDA s : s \in DOMAIN ref_permissions)

\* The permission account of the fetch, if it decodes to one.
FetchedPermission(c, known) ==
    IF c[PermissionsAccount].kind = "permission" THEN c[PermissionsAccount] ELSE known

\* await self.refresh_program_accounts(), at each of its three call sites.
RefreshProgramAccounts ==
    /\ sync_pc \in {"fetch", "refetch_mapping", "refetch_products"}
    /\ mapping_accounts' =
           StoreAccounts(mapping_accounts, chain, FetchedMappings(chain, test_mode))
    /\ product_accounts' = StoreAccounts(product_accounts, chain, Fetched(chain, "product"))
    /\ price_accounts' = StoreAccounts(price_accounts, chain, Fetched(chain, "price"))
    /\ authority_permission_account' =
           FetchedPermission(chain, authority_permission_account)
    /\ fetches' = Append(fetches, IF phases = <<>> THEN "start" ELSE phases[Len(phases)])
    /\ Goto(CASE sync_pc = "fetch" -> "authority"
              [] sync_pc = "refetch_mapping" -> "products"
              [] sync_pc = "refetch_products" -> "prices")
    /\ UNCHANGED <<chain, key_dir, argVars, sync_instructions, product_updates,
                   symbol_index, transactions, run, plans, otherVars>>

\* The authority phase: plan, extend, and call send_transaction.
SyncAuthority ==
    /\ sync_pc = "authority"
    /\ LET plan == sync_authority_permissions_instructions(
                       authority_permission_account, ref_authority_permissions, key_dir)
       IN  IF plan.raised
           THEN /\ Raise(plan.error)
                /\ UNCHANGED <<sync_instructions, plans, transactions>>
           ELSE /\ sync_instructions' = sync_instructions \o plan.instructions
                /\ plans' = [plans EXCEPT !.authority = plan.instructions]
                /\ IF plan.instructions # <<>> /\ send_transactions
                   THEN /\ transactions' = [transactions EXCEPT ![<<"authority", "">>] =
                                               NewTask(plan.instructions, plan.signers)]
                        /\ Goto("send_authority")
                   ELSE /\ UNCHANGED transactions
                        /\ Goto("mapping")
    /\ UNCHANGED <<chain, key_dir, workingVars, argVars, product_updates, symbol_index,
                   run, fetches, otherVars>>

\* The mapping phase.
SyncMapping ==
    /\ sync_pc = "mapping"
    /\ LET plan == sync_mapping_instructions(mapping_accounts, chain, key_dir,
                                             generate_keys)
       IN  IF plan.raised
           THEN /\ Raise(plan.error)
                /\ UNCHANGED <<sync_instructions, plans, transactions, key_dir>>
           ELSE /\ sync_instructions' = sync_instructions \o plan.instructions
                /\ plans' = [plans EXCEPT !.mapping = plan.instructions]
                /\ key_dir' = plan.key_dir
                /\ IF plan.instructions # <<>> /\ send_transactions
                   THEN /\ transactions' = [transactions EXCEPT ![<<"mapping", "">>] =
                                               NewTask(plan.instructions, plan.signers)]
                        /\ Goto("send_mapping")
                   ELSE /\ UNCHANGED transactions
                        /\ Goto(IF plan.instructions # <<>>
                                THEN "refetch_mapping" ELSE "products")
    /\ UNCHANGED <<chain, workingVars, argVars, product_updates, symbol_index, run,
                   fetches, otherVars>>

\* The awaited send_transaction of the authority or the mapping phase returns.
SendReturns ==
    /\ sync_pc \in {"send_authority", "send_mapping"}
    /\ transactions[<<PhaseOf(sync_pc), "">>].status = "done"
    /\ Goto(IF sync_pc = "send_authority" THEN "mapping"
            ELSE "refetch_mapping")
    /\ UNCHANGED <<chain, key_dir, workingVars, argVars, sync_instructions,
                   product_updates, symbol_index, transactions, run, fetches, plans,
                   otherVars>>

\* The awaited send_transaction raises, and so does sync.
SendRaises ==
    /\ sync_pc \in {"send_authority", "send_mapping"}
    /\ transactions[<<PhaseOf(sync_pc), "">>].status = "raised"
    /\ Raise("TransactionError")
    /\ UNCHANGED <<chain, key_dir, workingVars, argVars, sync_instructions,
                   product_updates, symbol_index, transactions, run, fetches, plans,
                   otherVars>>

\* if product_instructions: product_updates = True, with the flag kept only
\* for the symbol planned last
ProductUpdatesOfLastSymbol(flag, product_instructions) == product_instructions # <<>>

\* if product_instructions: product_updates = True
ProductUpdates(flag, product_instructions) == flag \/ product_instructions # <<>>

\* One pass of the loop of the product/price phase: plan the symbol, extend,
\* and create the task that sends the sub-plan.
SyncProduct ==
    /\ sync_pc = "products"
    /\ symbol_index < Len(Items)
    /\ LET jump_symbol == Items[symbol_index + 1]
           plan == sync_product_instructions(ref_products[jump_symbol], generate_keys,
                       allocate_price_v2, mapping_accounts, product_accounts,
                       price_accounts, chain, key_dir)
       IN  IF plan.raised
           THEN /\ Raise(plan.error)
                /\ UNCHANGED <<sync_instructions, plans, transactions, key_dir,
                               product_updates, symbol_index>>
           ELSE /\ sync_instructions' = sync_instructions \o plan.instructions
                /\ plans' = [plans EXCEPT !.product[jump_symbol] = plan.instructions]
                /\ key_dir' = plan.key_dir
                /\ product_updates' = ProductUpdates(product_updates, plan.instructions)
                /\ symbol_index' = symbol_index + 1
                /\ transactions' =
                       IF plan.instructions # <<>> /\ send_transactions
                       THEN [transactions EXCEPT ![<<"product", jump_symbol>>] =
                                NewTask(plan.instructions, plan.signers)]
                       ELSE transactions
                /\ Goto("products")
    /\ UNCHANGED <<chain, workingVars, argVars, run, fetches, otherVars>>

\* One pass of the loop of the publisher phase.
SyncPrice ==
    /\ sync_pc = "prices"
    /\ symbol_index < Len(Items)
    /\ LET jump_symbol == Items[symbol_index + 1]
           plan == sync_price_instructions(ref_products[jump_symbol], ref_publishers,
                       ref_permissions, price_accounts, key_dir)
       IN  IF plan.raised
           THEN /\ Raise(plan.error)
                /\ UNCHANGED <<sync_instructions, plans, transactions, symbol_index>>
           ELSE /\ sync_instructions' = sync_instructions \o plan.instructions
                /\ plans' = [plans EXCEPT !.price[jump_symbol] = plan.instructions]
                /\ symbol_index' = symbol_index + 1
                /\ transactions' =
                       IF plan.instructions # <<>> /\ send_transactions
                       THEN [transactions EXCEPT ![<<"price", jump_symbol>>] =
                                NewTask(plan.instructions, plan.signers)]
                       ELSE transactions
                /\ Goto("prices")
    /\ UNCHANGED <<chain, key_dir, workingVars, argVars, product_updates, run,
                   fetches, otherVars>>

\* asyncio.gather returns at once, whatever its tasks are doing.
GatheredWithoutWaiting(phase) == TRUE

\* A gather that returns when every task has ended, failed or not.
GatheredIgnoringFailures(phase) ==
    \A s \in Symbols : transactions[<<phase, s>>].status \in {"none", "done", "raised"}

\* asyncio.gather(*transactions) returns: every task of the phase is done.
Gathered(phase) ==
    \A s \in Symbols : transactions[<<phase, s>>].status \in {"none", "done"}

\* await asyncio.gather(*transactions) after the product loop, and the
\* fetch decision that follows it.
GatherProducts ==
    /\ sync_pc = "products"
    /\ symbol_index = Len(Items)
    /\ Gathered("product")
    /\ symbol_index' = 0
    /\ Goto(IF product_updates THEN "refetch_products" ELSE "prices")
    /\ UNCHANGED <<chain, key_dir, workingVars, argVars, sync_instructions,
                   product_updates, transactions, run, fetches, plans, otherVars>>

\* await asyncio.gather(*transactions) after the publisher loop; return instructions.
GatherPrices ==
    /\ sync_pc = "prices"
    /\ symbol_index = Len(Items)
    /\ Gathered("price")
    /\ Goto("returned")
    /\ UNCHANGED <<chain, key_dir, workingVars, argVars, sync_instructions,
                   product_updates, symbol_index, transactions, run, fetches, plans,
                   otherVars>>

\* asyncio.gather raises the exception of a task that failed.
GatherRaises ==
    /\ sync_pc \in {"products", "prices"}
    /\ symbol_index = Len(Items)
    /\ \E s \in Symbols : transactions[<<PhaseOf(sync_pc), s>>].status = "raised"
    /\ Raise("TransactionError")
    /\ UNCHANGED <<chain, key_dir, workingVars, argVars, sync_instructions,
                   product_updates, symbol_index, transactions, run, fetches, plans,
                   otherVars>>

\* One call of send_transaction builds its next transaction from the head of
\* its instructions and hands it to send_raw_transaction.
TaskSubmits(id) ==
    /\ transactions[id].status = "pending"
    /\ LET task == transactions[id]
           transaction == BuildTransaction(task.instructions, task.signers)
       IN  transactions' = [transactions EXCEPT ![id] =
               [task EXCEPT !.status = "in_flight", !.in_flight = <<transaction>>,
                            !.sent = @ + 1]]
    /\ UNCHANGED <<chain, key_dir, workingVars, argVars, sync_instructions,
                   product_updates, symbol_index, sync_pc, sync_error, run, phases,
                   fetches, plans, otherVars>>

\* The transaction is confirmed: the program has applied it, and the call
\* goes on with the instructions that did not fit, or returns.
TaskConfirmed(id) ==
    /\ transactions[id].status = "in_flight"
    /\ LET task == transactions[id]
           transaction == task.in_flight[1]
           remaining == Suffix(task.instructions, Len(transaction.instructions))
       IN  /\ chain' = ApplyInstructions(chain, transaction.instructions)
           /\ transactions' = [transactions EXCEPT ![id] =
                  [task EXCEPT !.status = IF remaining = <<>> THEN "done" ELSE "pending",
                               !.instructions = remaining, !.in_flight = <<>>]]
    /\ UNCHANGED <<key_dir, workingVars, argVars, sync_instructions, product_updates,
                   symbol_index, sync_pc, sync_error, run, phases, fetches, plans,
                   otherVars>>

\* The blockhash request or the submission raises: the call ends with the
\* exception and sends nothing more.
TaskFails(id) ==
    /\ transactions[id].status \in {"pending", "in_flight"}
    /\ transactions' = [transactions EXCEPT ![id] =
           [@ EXCEPT !.status = "raised", !.in_flight = <<>>]]
    /\ UNCHANGED <<chain, key_dir, workingVars, argVars, sync_instructions,
                   product_updates, symbol_index, sync_pc, sync_error, run, phases,
                   fetches, plans, otherVars>>

\* The caller invokes sync again on the same ProgramAdmin with the same arguments.
SyncAgain ==
    /\ sync_pc = "returned"
    /\ run < MaxRuns
    /\ run' = run + 1
    /\ sync_instructions' = <<>>
    /\ product_updates' = FALSE
    /\ symbol_index' = 0
    /\ transactions' = [id \in TaskIds |-> NoTask]
    /\ sync_pc' = "fetch"
    /\ phases' = <<>>
    /\ fetches' = <<>>
    /\ plans' = NoPlans
    /\ UNCHANGED <<chain, key_dir, workingVars, argVars, sync_error, otherVars>>

(***************************************************************************)
(* parse_data, parse_account and the loop of refresh_program_accounts       *)
(***************************************************************************)
MAGIC_NUMBER == "0xa1b2c3d4"
VERSION == 2

ACCOUNT_TYPE_MAPPING == 1
ACCOUNT_TYPE_PRODUCT == 2
ACCOUNT_TYPE_PRICE == 3
ACCOUNT_TYPE_TEST == 4

\* The account data of a record: the three fields of its header, whether
\* the data holds all twelve bytes of the header (header_complete) or ends
\* after the version, and whether the bytes after the header hold every
\* field of the layout (complete) or end before them.  A data_type of 7 is
\* none of the four kinds.
DataTypes ==
    {ACCOUNT_TYPE_MAPPING, ACCOUNT_TYPE_PRODUCT, ACCOUNT_TYPE_PRICE, ACCOUNT_TYPE_TEST, 7}
Buffers ==
    {data \in [magic_number : {MAGIC_NUMBER, "0x0"}, version : {VERSION, 1},
               data_type : DataTypes, header_complete : BOOLEAN, complete : BOOLEAN] :
        /\ (data.magic_number # MAGIC_NUMBER \/ data.version # VERSION) =>
               (data.complete = data.header_complete)
        /\ ~data.header_complete =>
               (~data.complete /\ data.data_type = ACCOUNT_TYPE_MAPPING)}

\* The None of an Optional[PythAccount].
NoPythAccount == [public_key |-> None, data |-> None]

\* What a call of the parser returns or raises.
ParseReturned(value) == [raised |-> FALSE, error |-> None, value |-> value]
ParseRaised(error) == [raised |-> TRUE, error |-> error, value |-> NoPythAccount]

\* parse_mapping_data, parse_product_data and parse_price_data: the fields
\* are read at fixed offsets, and construct and PublicKey raise on a slice
\* that is too short.
parse_payload(data, kind) ==
    IF data.complete THEN ParseReturned(kind) ELSE ParseRaised("StreamError")

\* parse_data without the comparison of the version.
parse_data_of_any_version(data) ==
    IF ~data.header_complete THEN ParseRaised("StreamError")
    ELSE IF data.magic_number # MAGIC_NUMBER THEN ParseReturned(None)
    ELSE IF data.data_type = ACCOUNT_TYPE_MAPPING THEN parse_payload(data, "MappingData")
    ELSE IF data.data_type = ACCOUNT_TYPE_PRODUCT THEN parse_payload(data, "ProductData")
    ELSE IF data.data_type = ACCOUNT_TYPE_PRICE THEN parse_payload(data, "PriceData")
    ELSE IF data.data_type = ACCOUNT_TYPE_TEST THEN ParseReturned(None)
    ELSE ParseRaised("RuntimeError")

\* The three fields of the header are read before any of them is compared.
parse_data(data) ==
    IF ~data.header_complete THEN ParseRaised("StreamError")
    ELSE IF data.magic_number # MAGIC_NUMBER THEN ParseReturned(None)
    ELSE IF data.version # VERSION THEN ParseReturned(None)
    ELSE IF data.data_type = ACCOUNT_TYPE_MAPPING THEN parse_payload(data, "MappingData")
    ELSE IF data.data_type = ACCOUNT_TYPE_PRODUCT THEN parse_payload(data, "ProductData")
    ELSE IF data.data_type = ACCOUNT_TYPE_PRICE THEN parse_payload(data, "PriceData")
    ELSE IF data.data_type = ACCOUNT_TYPE_TEST THEN ParseReturned(None)
    ELSE ParseRaised("RuntimeError")

\* parse_account: None for no data, else the account of the data's class.
parse_account(response) ==
    LET account_data == parse_data(response.data)
    IN  IF account_data.raised THEN ParseRaised(account_data.error)
        ELSE IF account_data.value = None THEN ParseReturned(NoPythAccount)
        ELSE ParseReturned([public_key |-> response.pubkey, data |-> account_data.value])

\* The longest result of get_program_accounts.
MaxRecords == 2
RecordKeys == <<"account_1", "account_2", "account_3", "account_4">>

\* The results of get_program_accounts: one record per account key.
Results ==
    UNION {{[i \in 1..n |-> [pubkey |-> RecordKeys[i], data |-> buffers[i]]] :
                buffers \in [1..n -> Buffers]} : n \in 1..MaxRecords}

\* The working set an earlier fetch has left (the dictionaries are made by
\* the constructor and live as long as the ProgramAdmin): nothing, account_1
\* as a product, or as a product an account that is no longer on the
\* network and that no later result holds.
KnownBefore ==
    {EmptyDict,
     [key \in {"account_1"} |-> [public_key |-> "account_1", data |-> "ProductData"]],
     [key \in {"account_0"} |-> [public_key |-> "account_0", data |-> "ProductData"]]}

RefreshInit ==
    /\ result \in Results
    /\ env_test_mode \in BOOLEAN
    /\ known_mapping_accounts = EmptyDict
    /\ known_product_accounts \in KnownBefore
    /\ known_price_accounts = EmptyDict
    /\ known_permission_account = None
    /\ record_index = 0
    /\ refresh_pc = "loop"
    /\ refresh_error = None

RefreshIdle ==
    /\ result = <<>>
    /\ env_test_mode = FALSE
    /\ known_mapping_accounts = EmptyDict
    /\ known_product_accounts = EmptyDict
    /\ known_price_accounts = EmptyDict
    /\ known_permission_account = None
    /\ record_index = 0
    /\ refresh_pc = "idle"
    /\ refresh_error = None

\* self._accounts[account.public_key] = account
StoreAccount(working, account) ==
    [key \in DOMAIN working \cup {account.public_key} |->
        IF key = account.public_key THEN account ELSE working[key]]

\* One pass of "for record in result".  No account of this parse_account is
\* a PythAuthorityPermissionAccount, so the last branch of the loop is not taken.
RefreshRecord ==
    /\ refresh_pc = "loop"
    /\ record_index < Len(result)
    /\ LET record == result[record_index + 1]
           account == parse_account(record)
       IN  IF account.raised
           THEN /\ refresh_pc' = "raised"
                /\ refresh_error' = account.error
                /\ UNCHANGED <<record_index, known_mapping_accounts,
                               known_product_accounts, known_price_accounts>>
           ELSE /\ record_index' = record_index + 1
                /\ known_mapping_accounts' =
                       IF /\ account.value # NoPythAccount
                          /\ account.value.data = "MappingData"
                          /\ env_test_mode \/ <<ProgramKey, record.pubkey>> \in reference_pairs
                       THEN StoreAccount(known_mapping_accounts, account.value)
                       ELSE known_mapping_accounts
                /\ known_product_accounts' =
                       IF account.value # NoPythAccount /\ account.value.data = "ProductData"
                       THEN StoreAccount(known_product_accounts, account.value)
                       ELSE known_product_accounts
                /\ known_price_accounts' =
                       IF account.value # NoPythAccount /\ account.value.data = "PriceData"
                       THEN StoreAccount(known_price_accounts, account.value)
                       ELSE known_price_accounts
                /\ UNCHANGED <<refresh_pc, refresh_error>>
    /\ UNCHANGED <<result, env_test_mode, known_permission_account, sortVars, ovVars,
                   sendVars, syncVars, codecVars>>

\* The loop has gone through the result: refresh_program_accounts returns.
RefreshReturns ==
    /\ refresh_pc = "loop"
    /\ record_index = Len(result)
    /\ refresh_pc' = "returned"
    /\ UNCHANGED <<result, env_test_mode, record_index, refresh_error,
                   known_mapping_accounts, known_product_accounts, known_price_accounts,
                   known_permission_account, sortVars, ovVars, sendVars, syncVars,
                   codecVars>>

(***************************************************************************)
(* parse_price_data: the price components                                   *)
(***************************************************************************)
\* The data of a price account from offset 240 on: its whole 32-byte words,
\* the bytes of a last, shorter word (tail_bytes, 0 if there is none), and
\* the header field components_count.  A word is all zero or not; a word
\* that is not all zero is named by the publisher key it spells.
ZeroWord == "zero"
Words == {ZeroWord, "key_a", "key_b"}
MaxWords == 6
MaxCount == 2
PriceDataSet ==
    [words : SeqsUpTo(Words, MaxWords), tail_bytes : {0, 16},
     components_count : 0..MaxCount]

PriceComponent(publisher_key, aggregate_price, latest_price) ==
    [publisher_key |-> publisher_key, aggregate_price |-> aggregate_price,
     latest_price |-> latest_price]

CodecReturned(components, metadata) ==
    [raised |-> FALSE, error |-> None, components |-> components, metadata |-> metadata]
CodecRaised(error) ==
    [raised |-> TRUE, error |-> error, components |-> <<>>, metadata |-> <<>>]

\* The loop "while offset < len(data) and parse_next_component", with the
\* next word to read at index word and the components appended so far.
\* PublicKey raises ValueError on a slice shorter than 32 bytes and
\* parse_price_info raises StreamError on one shorter than 32 bytes.
RECURSIVE parse_price_components(_, _, _)
parse_price_components(data, word, price_components) ==
    IF word > Len(data.words)
    THEN (IF data.tail_bytes = 0 THEN CodecReturned(price_components, <<>>)
          ELSE CodecRaised("ValueError"))
    ELSE IF data.words[word] = ZeroWord THEN CodecReturned(price_components, <<>>)
    ELSE IF word + 2 > Len(data.words) THEN CodecRaised("StreamError")
    ELSE parse_price_components(data, word + 3,
             Append(price_components,
                    PriceComponent(data.words[word], data.words[word + 1],
                                   data.words[word + 2])))

\* A parser that reads as many components as the header field says.
parse_counted_price_data(data) ==
    IF 3 * data.components_count > Len(data.words) THEN CodecRaised("StreamError")
    ELSE CodecReturned(
             [i \in 1..data.components_count |->
                 PriceComponent(data.words[3 * i - 2], data.words[3 * i - 1],
                                data.words[3 * i])], <<>>)

\* parse_price_data, for its price components.
parse_price_data(data) == parse_price_components(data, 1, <<>>)

PriceInit ==
    /\ price_data \in PriceDataSet
    /\ product_data = <<>>
    /\ codec_result = CodecReturned(<<>>, <<>>)
    /\ codec_pc = "price"

CodecIdle ==
    /\ price_data = <<>>
    /\ product_data = <<>>
    /\ codec_result = CodecReturned(<<>>, <<>>)
    /\ codec_pc = "idle"

ParsePriceData ==
    /\ codec_pc = "price"
    /\ codec_result' = parse_price_data(price_data)
    /\ codec_pc' = "price_done"
    /\ UNCHANGED <<price_data, product_data, sortVars, ovVars, sendVars, syncVars,
                   refreshVars>>

(***************************************************************************)
(* encode_product_metadata and parse_product_data: the metadata             *)
(***************************************************************************)
\* A string is the sequence of its UTF-8 bytes, a metadata dict the sequence
\* of its <<key, value>> items in insertion order.
MaxPairs == 2
MetadataKeys == {<<>>, <<1>>, <<2>>, <<1, 1>>}
MetadataValues == {<<>>, <<1>>, <<2, 1>>}
MetadataDicts ==
    {items \in SeqsUpTo(MetadataKeys \X MetadataValues, MaxPairs) :
        \A i, j \in 1..Len(items) : i # j => items[i][1] # items[j][1]}

\* encode_product_metadata: per item the length byte of the key, the key,
\* the length byte of the value, the value.
RECURSIVE encode_product_metadata(_)
encode_product_metadata(items) ==
    IF items = <<>> THEN <<>>
    ELSE <<Len(items[1][1])>> \o items[1][1] \o <<Len(items[1][2])>> \o items[1][2]
         \o encode_product_metadata(Tail(items))

\* The bytes that follow the metadata in the account data.
TrailingBytes == {<<>>, <<0>>, <<1, 2>>}

\* The data of a product account: the header field used_size and the bytes
\* from offset 48 on, which hold the encoded metadata and what follows it.
ProductDataOf(items, trailing) ==
    [metadata |-> items,
     used_size |-> 48 + Len(encode_product_metadata(items)),
     region |-> encode_product_metadata(items) \o trailing]

\* data[first : first + length] of a Python slice: it ends where the data ends.
Slice(region, first, length) ==
    [i \in 1..(IF first + length - 1 <= Len(region) THEN length
               ELSE IF first > Len(region) THEN 0 ELSE Len(region) - first + 1)
        |-> region[first + i - 1]]

\* metadata[key] = value on a dict: a known key keeps its place.
SetItem(items, key, value) ==
    IF \E i \in 1..Len(items) : items[i][1] = key
    THEN [i \in 1..Len(items) |-> IF items[i][1] = key THEN <<key, value>> ELSE items[i]]
    ELSE Append(items, <<key, value>>)

\* The loop "while pointer < used_size" of parse_product_data; the byte at
\* offset 48 is region[1].  Indexing past the data raises IndexError.
RECURSIVE parse_product_metadata(_, _, _)
parse_product_metadata(data, pointer, metadata) ==
    IF ~(47 + pointer < data.used_size) THEN CodecReturned(<<>>, metadata)
    ELSE IF pointer > Len(data.region) THEN CodecRaised("IndexError")
    ELSE LET key_length == data.region[pointer]
             value_at == pointer + 1 + key_length
         IN  IF key_length = 0
             THEN parse_product_metadata(data, pointer + 1, metadata)
             ELSE IF value_at > Len(data.region) THEN CodecRaised("IndexError")
             ELSE parse_product_metadata(data,
                      value_at + 1 + data.region[value_at],
                      SetItem(metadata, Slice(data.region, pointer + 1, key_length),
                              Slice(data.region, value_at + 1, data.region[value_at])))

\* parse_product_data, for its metadata.
parse_product_data(data) == parse_product_metadata(data, 1, <<>>)

ProductInit ==
    /\ price_data = <<>>
    /\ \E items \in MetadataDicts, trailing \in TrailingBytes :
           product_data = ProductDataOf(items, trailing)
    /\ codec_result = CodecReturned(<<>>, <<>>)
    /\ codec_pc = "product"

ParseProductData ==
    /\ codec_pc = "product"
    /\ codec_result' = parse_product_data(product_data)
    /\ codec_pc' = "product_done"
    /\ UNCHANGED <<price_data, product_data, sortVars, ovVars, sendVars, syncVars,
                   refreshVars>>

(***************************************************************************)
(* Specifications                                                           *)
(***************************************************************************)
InitSort == SortInit /\ OvIdle /\ SendIdle /\ SyncIdle /\ RefreshIdle /\ CodecIdle
NextSort == CallSort
SpecSort == InitSort /\ [][NextSort]_vars

InitSyncSort == SyncSortInit /\ OvIdle /\ SendIdle /\ SyncIdle /\ RefreshIdle /\ CodecIdle
NextSyncSort == CallSyncSort
SpecSyncSort == InitSyncSort /\ [][NextSyncSort]_vars

InitOverrides == OvInit /\ SortIdle /\ SendIdle /\ SyncIdle /\ RefreshIdle /\ CodecIdle
NextOverrides == ApplyOverrides \/ ApplyOverridesAgain
SpecOverrides == InitOverrides /\ [][NextOverrides]_vars

InitSend == SendInit /\ SortIdle /\ OvIdle /\ SyncIdle /\ RefreshIdle /\ CodecIdle
NextSend ==
    \/ SendNothing
    \/ RecentBlockhashFails
    \/ SerializeFails
    \/ SubmitTransaction
    \/ TransactionConfirmed
    \/ TransactionFails
SpecSend == InitSend /\ [][NextSend]_vars

\* send_transaction awaits each call it makes (the blockhash, the submission
\* with its confirmation, the recursive call), and each of them returns or
\* raises: a call that can take a step takes one.
SpecSendFair == SpecSend /\ WF_vars(NextSend)

InitRefresh == RefreshInit /\ SortIdle /\ OvIdle /\ SendIdle /\ SyncIdle /\ CodecIdle
NextRefresh == RefreshRecord \/ RefreshReturns
SpecRefresh == InitRefresh /\ [][NextRefresh]_vars

InitCodec ==
    /\ PriceInit \/ ProductInit
    /\ SortIdle /\ OvIdle /\ SendIdle /\ SyncIdle /\ RefreshIdle
NextCodec == ParsePriceData \/ ParseProductData
SpecCodec == InitCodec /\ [][NextCodec]_vars

Init == SyncInit /\ SortIdle /\ SendIdle /\ RefreshIdle /\ CodecIdle
Next ==
    \/ RefreshProgramAccounts
    \/ SyncAuthority
    \/ SyncMapping
    \/ SendReturns
    \/ SendRaises
    \/ SyncProduct
    \/ GatherProducts
    \/ SyncPrice
    \/ GatherPrices
    \/ GatherRaises
    \/ \E id \in TaskIds : TaskSubmits(id)
    \/ \E id \in TaskIds : TaskConfirmed(id)
    \/ \E id \in TaskIds : TaskFails(id)
    \/ SyncAgain
Spec == Init /\ [][Next]_vars

(***************************************************************************)
(* Properties of sort_mapping_account_keys                                  *)
(***************************************************************************)
AccountKeys(accts) == {accts[i].public_key : i \in 1..Len(accts)}
Tails(accts) == {i \in 1..Len(accts) : accts[i].next_mapping_account_key = ZeroKey}

\* keys lists the accounts of accts head first, tail last: every key once,
\* each account followed by the account its next key names, the last
\* account's next key being the zero key.
HeadToTail(accts, keys) ==
    /\ Len(keys) = Len(accts)
    /\ \E p \in Perms(Len(accts)) :
          /\ \A i \in 1..Len(accts) : keys[i] = accts[p[i]].public_key
          /\ \A i \in 1..Len(accts) :
                accts[p[i]].next_mapping_account_key =
                    IF i = Len(accts) THEN ZeroKey ELSE accts[p[i + 1]].public_key

\* The accounts form one singly-linked chain ending in the zero key.
ValidChain(accts) ==
    /\ accts # <<>>
    /\ \E p \in Perms(Len(accts)) :
          HeadToTail(accts, [i \in 1..Len(accts) |-> accts[p[i]].public_key])

\* The accounts form one cycle: nobody's next key is the zero key.
PureCycle(accts) ==
    /\ accts # <<>>
    /\ \E p \in Perms(Len(accts)) :
          \A i \in 1..Len(accts) :
              accts[p[i]].next_mapping_account_key =
                  accts[p[(i % Len(accts)) + 1]].public_key

Permuted(accts, p) == [i \in 1..Len(accts) |-> accts[p[i]]]

\* C1: for a valid chain the call returns the keys head to tail, and returns
\* that same list for every reordering of its input; for the empty list it
\* returns the empty list.
C1_SortReturnsHeadToTail ==
    sort_pc = "done" =>
        /\ accounts = <<>> => sort_result = Returned(<<>>)
        /\ ValidChain(accounts) =>
              /\ ~sort_result.raised
              /\ HeadToTail(accounts, sort_result.keys)
              /\ \A p \in Perms(Len(accounts)) :
                    sort_mapping_account_keys(Permuted(accounts, p)) = sort_result

\* A chain of three accounts given tail first has been sorted.
C1_Witness ==
    /\ sort_pc = "done"
    /\ Len(accounts) = 3
    /\ ValidChain(accounts)
    /\ accounts[1].next_mapping_account_key = ZeroKey
    /\ sort_result.keys[3] = accounts[1].public_key
    /\ sort_result.keys[1] # accounts[1].public_key

\* C2: a non-empty input in which no account has the zero key as its next
\* key makes the call raise, and no list is returned.
C2_NoTailRaises ==
    (sort_pc = "done" /\ accounts # <<>> /\ Tails(accounts) = {}) =>
        (sort_result.raised /\ sort_result.keys = <<>>)

\* A cycle of three accounts has been rejected.
C2_Witness ==
    /\ sort_pc = "done"
    /\ Len(accounts) = 3
    /\ PureCycle(accounts)
    /\ sort_result.raised

\* C3: an input with more than one tail, or one whose backward walk from
\* the tail cannot reach every account, makes the call raise; a returned
\* list holds every input key exactly once.
C3_BrokenChainRaises ==
    sort_pc = "done" =>
        /\ (Cardinality(Tails(accounts)) > 1
             \/ (Tails(accounts) # {} /\ ~ValidChain(accounts)))
                => sort_result.raised
        /\ ~sort_result.raised =>
              /\ Range(sort_result.keys) = AccountKeys(accounts)
              /\ Len(sort_result.keys) = Cardinality(AccountKeys(accounts))

(***************************************************************************)
(* Properties of apply_overrides                                            *)
(***************************************************************************)
\* overrides[net][symbol] is present and false.
Disabled(overrides, net, symbol) ==
    /\ net \in DOMAIN overrides
    /\ symbol \in DOMAIN overrides[net]
    /\ overrides[net][symbol] = FALSE

\* C4: the result has exactly the symbols of ref_permissions; a symbol
\* disabled for the network has every account type's list emptied, every
\* other symbol keeps its value, so with no override for the network the
\* result is ref_permissions.
C4_OverridesDisableExactly ==
    ov_pc = "once" =>
        /\ DOMAIN overridden_permissions = DOMAIN ref_permissions
        /\ \A symbol \in DOMAIN ref_permissions :
              IF Disabled(ref_overrides, network, symbol)
              THEN /\ DOMAIN overridden_permissions[symbol]
                        = DOMAIN ref_permissions[symbol]
                   /\ \A k \in DOMAIN ref_permissions[symbol] :
                         overridden_permissions[symbol][k] = <<>>
              ELSE overridden_permissions[symbol] = ref_permissions[symbol]
        /\ (network \notin DOMAIN ref_overrides \/ ref_overrides = EmptyDict)
              => overridden_permissions = ref_permissions

\* One symbol was emptied while the other, disabled only on another network
\* or enabled on this one, kept its publishers.
C4_Witness ==
    /\ ov_pc = "once"
    /\ DOMAIN ref_permissions = Symbols
    /\ Disabled(ref_overrides, network, "BTCUSD")
    /\ "price" \in DOMAIN ref_permissions["BTCUSD"]
    /\ ref_permissions["BTCUSD"]["price"] = <<"random">>
    /\ overridden_permissions["BTCUSD"]["price"] = <<>>
    /\ \E other \in DOMAIN ref_overrides :
          /\ other # network
          /\ Disabled(ref_overrides, other, "AAPL")
    /\ network \in DOMAIN ref_overrides
    /\ "AAPL" \in DOMAIN ref_overrides[network]
    /\ ref_overrides[network]["AAPL"]
    /\ "price" \in DOMAIN ref_permissions["AAPL"]
    /\ overridden_permissions["AAPL"]["price"] = <<"random">>

\* C5: applying the function to its own result gives that result again, and
\* the caller's permissions and overrides are what they were before the
\* calls.
C5_OverridesIdempotentAndPure ==
    /\ ov_pc = "twice" => overridden_twice = overridden_permissions
    /\ ov_pc \in {"once", "twice"} =>
          /\ ref_permissions = arg_permissions
          /\ ref_overrides = arg_overrides

\* The function was applied twice where it disables a symbol that had a
\* publisher.
C5_Witness ==
    /\ ov_pc = "twice"
    /\ \E symbol \in DOMAIN ref_permissions :
          /\ Disabled(ref_overrides, network, symbol)
          /\ \E k \in DOMAIN ref_permissions[symbol] :
                /\ ref_permissions[symbol][k] # <<>>
                /\ overridden_twice[symbol][k] = <<>>

(***************************************************************************)
(* Properties of send_transaction                                           *)
(***************************************************************************)
RECURSIVE ConcatInstructions(_)
ConcatInstructions(txs) ==
    IF txs = <<>> THEN <<>>
    ELSE Head(txs).instructions \o ConcatInstructions(Tail(txs))

\* C6: the instruction lists of the submitted transactions, concatenated in
\* submission order, are the input list: at every moment they are followed
\* by exactly the instructions still to send, and when the call returns
\* they are the whole input.
C6_BatchesConcatenateToInput ==
    /\ send_pc # "idle" =>
          ConcatInstructions(submitted) \o Suffix(instructions, ix_index) = send_input
    /\ send_pc = "returned" => ConcatInstructions(submitted) = send_input

\* A list of four instructions was sent as two or more transactions.
C6_Witness ==
    /\ send_pc = "returned"
    /\ Len(send_input) = 4
    /\ Len(submitted) >= 2
    /\ Len(submitted[1].instructions) >= 2

\* The bytes instruction number i of a transaction added to it.
AddedBytes(transaction, i) ==
    compute_transaction_size(transaction.fee_payer, Prefix(transaction.instructions, i))
      - compute_transaction_size(transaction.fee_payer,
                                 Prefix(transaction.instructions, i - 1))

NoInstructionAddsOverHalf(transaction) ==
    \A i \in 1..Len(transaction.instructions) :
        2 * AddedBytes(transaction, i) <= PACKET_DATA_SIZE

\* C7 as stated: every submitted transaction is smaller than
\* PACKET_DATA_SIZE, whatever the instructions.
C7_EveryTransactionFits ==
    \A t \in 1..Len(submitted) : submitted[t].size < PACKET_DATA_SIZE

\* C7 as amended: a submitted transaction none of whose instructions added
\* more than PACKET_DATA_SIZE / 2 bytes to it is smaller than
\* PACKET_DATA_SIZE.
C7_TransactionFitsIfNoInstructionAddsOverHalf ==
    \A t \in 1..Len(submitted) :
        NoInstructionAddsOverHalf(submitted[t]) =>
            submitted[t].size < PACKET_DATA_SIZE

\* A transaction was closed because it had reached half the packet size,
\* and the rest went into a second one.
C7_Witness ==
    /\ Len(submitted) = 2
    /\ Len(submitted[1].instructions) >= 2
    /\ NoInstructionAddsOverHalf(submitted[1])
    /\ 2 * submitted[1].size >= PACKET_DATA_SIZE

(***************************************************************************)
(* Properties of sync                                                       *)
(***************************************************************************)
PhaseOrder == <<"authority", "mapping", "product", "price">>
LastPhase == IF phases = <<>> THEN "" ELSE phases[Len(phases)]
Planned(phase) ==
    IF phase \in {"authority", "mapping"} THEN plans[phase] # <<>>
    ELSE \E s \in Symbols : plans[phase][s] # <<>>

\* C8: the phases of a run are entered in the fixed order authority, mapping,
\* product/price, publishers, each at most once; a plan or a transaction
\* exists only for a phase that has been entered, and every transaction that
\* has not settled successfully belongs to the phase entered last, so that
\* when a phase is entered, planned or sent, every transaction of the
\* earlier phases has settled.
C8_PhasesInOrderAfterSettling ==
    sync_pc # "idle" =>
        /\ Len(phases) <= Len(PhaseOrder)
        /\ phases = SubSeq(PhaseOrder, 1, Len(phases))
        /\ \A phase \in Range(PhaseOrder) : Planned(phase) => phase \in Range(phases)
        /\ \A id \in TaskIds :
            /\ transactions[id].status # "none" => id[1] \in Range(phases)
            /\ transactions[id].status \notin {"none", "done"} => id[1] = LastPhase

\* A publisher transaction is in flight after the transactions of all three
\* earlier phases were sent and have settled.
C8_Witness ==
    /\ transactions[<<"price", "BTCUSD">>].status = "in_flight"
    /\ transactions[<<"authority", "">>].status = "done"
    /\ transactions[<<"mapping", "">>].status = "done"
    /\ \A s \in Symbols : transactions[<<"product", s>>].status = "done"

\* The fetches a run has made by now, going by its plans and the phases entered.
ExpectedFetches ==
    (IF sync_pc = "fetch" THEN <<>> ELSE <<"start">>)
    \o (IF Planned("mapping") /\ "product" \in Range(phases) THEN <<"mapping">> ELSE <<>>)
    \o (IF Planned("product") /\ "price" \in Range(phases) THEN <<"product">> ELSE <<>>)

\* C9: a run fetches the program accounts once at its start, once after the
\* mapping phase exactly when that phase planned an instruction, and once
\* after the product/price phase exactly when some symbol's product sub-plan
\* held an instruction; each conditional fetch is made before the next phase
\* is entered, and there is no other fetch, none after the authority phase.
C9_FetchesFollowPlans ==
    sync_pc # "idle" => fetches = ExpectedFetches

\* A run that planned product instructions for one symbol only, none for the
\* mapping, and fetched once more after the product/price phase.
C9_Witness ==
    /\ sync_pc = "returned"
    /\ fetches = <<"start", "product">>
    /\ plans.product["BTCUSD"] # <<>>
    /\ "AAPL" \in DOMAIN ref_permissions
    /\ plans.product["AAPL"] = <<>>

\* C10: a run that follows a run whose transactions were all sent and
\* applied, with the same arguments, plans no instruction in any phase and
\* sends no transaction.
C10_SecondSyncPlansNothing ==
    (run > 1 /\ send_transactions) =>
        /\ sync_instructions = <<>>
        /\ \A id \in TaskIds : transactions[id].status = "none"

\* The mapping sub-plan for a network without a mapping account.
NewMappingPlan ==
    <<create_account("funding", "mapping_0", MAPPING_ACCOUNT_SIZE, ProgramKey),
      init_mapping(ProgramKey, "funding", "mapping_0")>>

\* The product sub-plan for a symbol without accounts, attached to mapping_key.
NewSymbolPlan(product, mapping_key, price_alloc_size) ==
    <<create_account("funding", ProductLabel(product.jump_symbol),
                     PRODUCT_ACCOUNT_SIZE, ProgramKey),
      add_product(ProgramKey, "funding", mapping_key, ProductLabel(product.jump_symbol)),
      update_product(ProgramKey, "funding", ProductLabel(product.jump_symbol),
                     product.metadata),
      create_account("funding", PriceLabel(product.jump_symbol), price_alloc_size,
                     ProgramKey),
      add_price(ProgramKey, "funding", ProductLabel(product.jump_symbol),
                PriceLabel(product.jump_symbol), product.exponent)>>

\* C11: sync called on an empty network with the reference products BTCUSD
\* and AAPL ends, unless a transaction or a keypair failed it, with a plan
\* that holds exactly the mapping create-account and init-mapping and, per
\* symbol, product create-account, add-product, update-product, price
\* create-account and add-price.
C11_EmptyChainPlan ==
    (/\ run = 1
     /\ initial_chain = EmptyChain
     /\ DOMAIN ref_permissions = Symbols
     /\ \/ sync_pc = "returned"
        \/ sync_pc = "raised" /\ sync_error \notin {"TransactionError", "RuntimeError"})
    => sync_instructions =
          NewMappingPlan
          \o NewSymbolPlan(ref_products["BTCUSD"], "mapping_0",
                           IF allocate_price_v2 THEN PRICE_ACCOUNT_V2_SIZE
                           ELSE PRICE_ACCOUNT_V1_SIZE)
          \o NewSymbolPlan(ref_products["AAPL"], "mapping_0",
                           IF allocate_price_v2 THEN PRICE_ACCOUNT_V2_SIZE
                           ELSE PRICE_ACCOUNT_V1_SIZE)

\* The publisher loop of this run has planned the symbol, and sync has not raised.
PricePlanned(s) ==
    \E i \in 1..Len(Items) :
        /\ Items[i] = s
        /\ \/ sync_pc = "prices" /\ i <= symbol_index
           \/ sync_pc = "returned"

\* The toggle instructions of a sub-plan, in their order.
Toggles(plan) ==
    SelectSeq(plan, LAMBDA ix : ix.command \in {"add_publisher", "del_publisher"})
TogglesOf(plan, command) == SelectSeq(plan, LAMBDA ix : ix.command = command)
TogglePublishers(plan, command) ==
    {TogglesOf(plan, command)[i].publisher : i \in 1..Len(TogglesOf(plan, command))}

\* C12: the publisher sub-plan of a symbol holds one del_publisher for each
\* on-chain publisher key that is not a reference key, then one add_publisher
\* for each reference key that is not on-chain, all on the symbol's price
\* account, and no toggle for a key in both sets; a symbol disabled by an
\* override has every on-chain publisher removed and none added.
C12_TogglesAreTheDifferences ==
    \A s \in Symbols : PricePlanned(s) =>
        LET plan == plans.price[s]
            current == Range(price_accounts[PriceLabel(s)].price_components)
            new == {ref_publishers.keys[name] : name \in Range(ref_permissions[s]["price"])}
            toggles == Toggles(plan)
        IN  /\ TogglePublishers(plan, "del_publisher") = current \ new
            /\ Len(TogglesOf(plan, "del_publisher")) = Cardinality(current \ new)
            /\ TogglePublishers(plan, "add_publisher") = new \ current
            /\ Len(TogglesOf(plan, "add_publisher")) = Cardinality(new \ current)
            /\ toggles = TogglesOf(plan, "del_publisher") \o TogglesOf(plan, "add_publisher")
            /\ \A i \in 1..Len(toggles) : toggles[i].keys[2].pubkey = PriceLabel(s)
            /\ Disabled(ref_overrides, network, s) =>
                   /\ TogglePublishers(plan, "del_publisher") = current
                   /\ TogglesOf(plan, "add_publisher") = <<>>

\* On-chain {a, b} against the reference {b, c} gives del(a), add(c) and
\* nothing for b, while the disabled AAPL loses its only publisher.
C12_Witness ==
    /\ PricePlanned("BTCUSD") /\ PricePlanned("AAPL")
    /\ Range(price_accounts[PriceLabel("BTCUSD")].price_components) = {"key_a", "key_b"}
    /\ Toggles(plans.price["BTCUSD"]) =
           <<toggle_publisher(ProgramKey, "funding", PriceLabel("BTCUSD"), "key_a", FALSE),
             toggle_publisher(ProgramKey, "funding", PriceLabel("BTCUSD"), "key_c", TRUE)>>
    /\ Disabled(ref_overrides, network, "AAPL")
    /\ Toggles(plans.price["AAPL"]) =
           <<toggle_publisher(ProgramKey, "funding", PriceLabel("AAPL"), "key_b", FALSE)>>

\* C13: the publisher sub-plan of a symbol holds a set_minimum_publishers
\* instruction exactly when the reference min_publishers is given and differs
\* from the on-chain value, and then one, on the symbol's price account and
\* with the reference value; with min_publishers None it holds none, and the
\* value of a price account that existed before the run stays what it was.
C13_MinPublishersWhenGivenAndDifferent ==
    \A s \in Symbols :
        LET expected == ref_products[s].min_publishers
            price_key == PriceLabel(s)
            emitted == TogglesOf(plans.price[s], "set_minimum_publishers")
        IN  /\ PricePlanned(s) =>
                IF expected # <<>>
                   /\ price_accounts[price_key].min_publishers # expected[1]
                THEN /\ Len(emitted) = 1
                     /\ emitted[1].value = expected[1]
                     /\ emitted[1].keys[2].pubkey = price_key
                ELSE emitted = <<>>
            /\ (sync_pc # "idle" /\ expected = <<>>
                /\ initial_chain[price_key].kind = "price") =>
                   chain[price_key].min_publishers = initial_chain[price_key].min_publishers

\* Reference 7 against on-chain 5 gives one instruction with the value 7,
\* and AAPL, whose reference value is None, gets none.
C13_Witness ==
    /\ PricePlanned("BTCUSD") /\ PricePlanned("AAPL")
    /\ price_accounts[PriceLabel("BTCUSD")].min_publishers = 5
    /\ ref_products["BTCUSD"].min_publishers = <<7>>
    /\ Len(TogglesOf(plans.price["BTCUSD"], "set_minimum_publishers")) = 1
    /\ TogglesOf(plans.price["BTCUSD"], "set_minimum_publishers")[1].value = 7
    /\ ref_products["AAPL"].min_publishers = <<>>
    /\ price_accounts[PriceLabel("AAPL")].min_publishers = DEFAULT_MIN_PUBLISHERS
    /\ TogglesOf(plans.price["AAPL"], "set_minimum_publishers") = <<>>

\* The authority phase of this run has computed its plan and no later fetch
\* has replaced the permission account it looked at.
AuthorityPlanned ==
    /\ Len(fetches) = 1
    /\ \/ sync_pc = "send_authority"
       \/ "mapping" \in Range(phases)

ProductPlanned(s) ==
    /\ sync_pc = "products"
    /\ \E i \in 1..symbol_index : Items[i] = s

\* The last account of the chain of the working set's mapping accounts.
TailMapping ==
    CHOOSE key \in DOMAIN mapping_accounts :
        mapping_accounts[key].next_mapping_account_key = ZeroKey

PriceAllocSize ==
    IF allocate_price_v2 THEN PRICE_ACCOUNT_V2_SIZE ELSE PRICE_ACCOUNT_V1_SIZE

Commands(plan) == [i \in 1..Len(plan) |-> plan[i].command]

\* C15 as stated: a symbol with neither account in the working set gets
\* create-account, add-product, update-product, create-account and add-price.
C15_FullSubPlanWheneverUnknown ==
    \A s \in Symbols :
        (/\ ProductPlanned(s)
         /\ ProductLabel(s) \notin DOMAIN product_accounts
         /\ PriceLabel(s) \notin DOMAIN price_accounts)
        => plans.product[s] = NewSymbolPlan(ref_products[s], TailMapping, PriceAllocSize)

\* C15: when the product loop plans a symbol that has neither a product
\* account nor a price account in the working set, the sub-plan is, in this
\* order, create-account for the product unless an account already exists at
\* the product key, add-product naming the tail of the mapping chain,
\* update-product with the reference metadata, create-account for the price
\* account with the size of the selected version unless an account already
\* exists at the price key, and add-price with the symbol's exponent.
C15_SubPlanOfUnknownSymbol ==
    [][\A s \in Symbols :
        (/\ sync_pc = "products"
         /\ symbol_index' = symbol_index + 1
         /\ Items[symbol_index'] = s
         /\ ProductLabel(s) \notin DOMAIN product_accounts
         /\ PriceLabel(s) \notin DOMAIN price_accounts)
        => LET plan == plans'.product[s]
           IN  /\ Commands(plan) =
                    (IF chain[ProductLabel(s)].kind = "absent"
                     THEN <<"create_account">> ELSE <<>>)
                    \o <<"add_product", "update_product">>
                    \o (IF chain[PriceLabel(s)].kind = "absent"
                        THEN <<"create_account">> ELSE <<>>)
                    \o <<"add_price">>
               /\ \A i \in 1..Len(plan) :
                    /\ plan[i].keys[1].pubkey = "funding"
                    /\ plan[i].command = "create_account" =>
                         IF i = 1
                         THEN /\ plan[i].keys[2].pubkey = ProductLabel(s)
                              /\ plan[i].value = PRODUCT_ACCOUNT_SIZE
                         ELSE /\ plan[i].keys[2].pubkey = PriceLabel(s)
                              /\ plan[i].value = PriceAllocSize
                    /\ plan[i].command = "add_product" =>
                         /\ plan[i].keys[2].pubkey = TailMapping
                         /\ plan[i].keys[3].pubkey = ProductLabel(s)
                    /\ plan[i].command = "update_product" =>
                         /\ plan[i].keys[2].pubkey = ProductLabel(s)
                         /\ plan[i].metadata = ref_products[s].metadata
                    /\ plan[i].command = "add_price" =>
                         /\ plan[i].keys[2].pubkey = ProductLabel(s)
                         /\ plan[i].keys[3].pubkey = PriceLabel(s)
                         /\ plan[i].value = ref_products[s].exponent]_vars

\* BTCUSD has an account at its product key that holds no product yet and
\* the chain of mapping accounts has two accounts: the sub-plan attaches the
\* product to the second one and creates only the price account.
C15_Witness ==
    /\ ProductPlanned("BTCUSD")
    /\ ProductLabel("BTCUSD") \notin DOMAIN product_accounts
    /\ PriceLabel("BTCUSD") \notin DOMAIN price_accounts
    /\ chain[ProductLabel("BTCUSD")].kind = "uninitialized"
    /\ transactions[<<"product", "BTCUSD">>].sent = 0
    /\ Commands(plans.product["BTCUSD"]) =
          <<"add_product", "update_product", "create_account", "add_price">>
    /\ plans.product["BTCUSD"][1].keys[2].pubkey = "mapping_1"
    /\ plans.product["BTCUSD"][4].value = -8

\* C16: when both the product account and the price account of a symbol are
\* in the working set, the symbol's product sub-plan is one update-product
\* with the reference metadata if some key of the reference metadata is
\* missing from the on-chain metadata or has another value there, and is
\* empty otherwise.
C16_UpdateProductIffMetadataDiffers ==
    \A s \in Symbols :
        (/\ ProductPlanned(s)
         /\ ProductLabel(s) \in DOMAIN product_accounts
         /\ PriceLabel(s) \in DOMAIN price_accounts)
        => LET plan == plans.product[s]
               reference == ref_products[s].metadata
               onchain == product_accounts[ProductLabel(s)].metadata
           IN  IF \E key \in DOMAIN reference :
                     key \notin DOMAIN onchain \/ onchain[key] # reference[key]
               THEN /\ Commands(plan) = <<"update_product">>
                    /\ plan[1].metadata = reference
                    /\ plan[1].keys[2].pubkey = ProductLabel(s)
               ELSE plan = <<>>

\* The on-chain metadata of BTCUSD lacks reference keys and gets one
\* update-product, while AAPL's metadata equals the reference and gets nothing.
C16_Witness ==
    /\ ProductPlanned("BTCUSD") /\ ProductPlanned("AAPL")
    /\ ProductLabel("BTCUSD") \in DOMAIN product_accounts
    /\ PriceLabel("BTCUSD") \in DOMAIN price_accounts
    /\ product_accounts[ProductLabel("BTCUSD")].metadata = MetadataBTCShort
    /\ Commands(plans.product["BTCUSD"]) = <<"update_product">>
    /\ plans.product["BTCUSD"][1].metadata = MetadataBTC
    /\ ProductLabel("AAPL") \in DOMAIN product_accounts
    /\ PriceLabel("AAPL") \in DOMAIN price_accounts
    /\ product_accounts[ProductLabel("AAPL")].metadata = MetadataAAPL
    /\ plans.product["AAPL"] = <<>>

\* The accounts a transaction names as writable.
WritableAccounts(transaction) ==
    UNION {{transaction.instructions[i].keys[j].pubkey :
                j \in {k \in 1..Len(transaction.instructions[i].keys) :
                          transaction.instructions[i].keys[k].is_writable}} :
           i \in 1..Len(transaction.instructions)}

\* C17: while the transactions of two symbols of the product phase or of
\* the publisher phase are in flight together, they write no common account
\* besides the funding account that pays for both, and neither writes a
\* mapping account.
C17_SymbolWritesDisjoint ==
    \A phase \in {"product", "price"} : \A s, t \in Symbols :
        (/\ s # t
         /\ transactions[<<phase, s>>].status = "in_flight"
         /\ transactions[<<phase, t>>].status = "in_flight")
        => LET written_s == WritableAccounts(transactions[<<phase, s>>].in_flight[1])
               written_t == WritableAccounts(transactions[<<phase, t>>].in_flight[1])
           IN  /\ (written_s \cap written_t) \ {"funding"} = {}
               /\ written_s \cap {"mapping_0", "mapping_1"} = {}

\* The position of sync while the tasks of a concurrent phase run.
LoopOf(phase) == IF phase = "product" THEN "products" ELSE "prices"
SymbolTasks == {"product", "price"} \X Symbols

\* Once the send_transaction task of a symbol has failed: sync is still in
\* the loop or the gather of that phase or has raised, the phase is the last
\* one entered and no task of a later phase exists; sync raises the task's
\* exception when the loop has finished; a transaction of another symbol
\* that is in flight can still be confirmed.
FailureEndsSync ==
    \A id \in SymbolTasks : transactions[id].status = "raised" =>
        /\ sync_pc \in {LoopOf(id[1]), "raised"}
        /\ LastPhase = id[1]
        /\ id[1] = "product" =>
              \A s \in Symbols : transactions[<<"price", s>>].status = "none"
        /\ (sync_pc = "raised" /\ symbol_index = Len(Items)) =>
              sync_error = "TransactionError"
        /\ \A other \in SymbolTasks :
              transactions[other].status = "in_flight" => ENABLED TaskConfirmed(other)

\* The step in which a task fails changes neither the network nor another
\* task, and a failed task stays as it is: it is not started again and the
\* instructions it has left are not submitted.
FailureStep ==
    \A id \in SymbolTasks :
        /\ (transactions[id].status # "raised" /\ transactions'[id].status = "raised") =>
              /\ chain' = chain
              /\ transactions'[id].instructions = transactions[id].instructions
              /\ transactions'[id].sent = transactions[id].sent
              /\ \A other \in TaskIds \ {id} : transactions'[other] = transactions[other]
        /\ transactions[id].status = "raised" => transactions'[id] = transactions[id]

\* C18: a failed submission of one symbol's transaction in the product or
\* the publisher phase reaches the caller of sync as an exception and is not
\* retried; the transactions of other symbols that are in flight go on, what
\* was confirmed stays on the network, the rest of the failed call's
\* instructions is never submitted and no later phase starts.
C18_FailedSubmissionEndsSync == []FailureEndsSync /\ [][FailureStep]_vars

\* BTCUSD's product task has failed with instructions left after its first
\* transaction was confirmed, sync has raised its exception, the created
\* product account is on the network and AAPL's transaction is in flight.
C18_Witness ==
    /\ transactions[<<"product", "BTCUSD">>].status = "raised"
    /\ transactions[<<"product", "BTCUSD">>].sent >= 1
    /\ transactions[<<"product", "BTCUSD">>].instructions # <<>>
    /\ Len(transactions[<<"product", "BTCUSD">>].instructions)
          < Len(plans.product["BTCUSD"])
    /\ initial_chain[ProductLabel("BTCUSD")].kind = "absent"
    /\ chain[ProductLabel("BTCUSD")].kind = "product"
    /\ sync_pc = "raised" /\ sync_error = "TransactionError"
    /\ transactions[<<"product", "AAPL">>].status = "in_flight"

\* The header of the data is not the expected one, or names the test kind.
NotAPythRecord(data) ==
    \/ data.magic_number # "0xa1b2c3d4"
    \/ data.version # 2
    \/ data.data_type = 4

\* C19 as stated: parse_data returns None without raising for all data
\* whose magic number or version is not the expected one, and the loop
\* passes over every such record.
C19_EveryUnrecognisedRecordIsSkipped ==
    [][(/\ refresh_pc = "loop"
        /\ record_index < Len(result)
        /\ NotAPythRecord(result[record_index + 1].data))
       => /\ parse_data(result[record_index + 1].data) = ParseReturned(None)
          /\ refresh_pc' = "loop"
          /\ record_index' = record_index + 1]_vars

\* C19: parse_data returns None and does not raise for data that holds the
\* twelve bytes of the header and whose magic number or version is not the
\* expected one or whose kind is the test kind, and the pass of the loop of
\* refresh_program_accounts over such a record goes on to the next record
\* and changes none of the mapping, product, price and permission working
\* sets.
C19_UnrecognisedRecordsAreSkipped ==
    [][(/\ refresh_pc = "loop"
        /\ record_index < Len(result)
        /\ result[record_index + 1].data.header_complete
        /\ NotAPythRecord(result[record_index + 1].data))
       => /\ parse_data(result[record_index + 1].data) = ParseReturned(None)
          /\ refresh_pc' = "loop"
          /\ refresh_error' = None
          /\ record_index' = record_index + 1
          /\ UNCHANGED <<known_mapping_accounts, known_product_accounts,
                         known_price_accounts, known_permission_account>>]_vars

\* The loop has passed over a mapping record of another version and a test
\* record and has stored neither, in test mode, beside the product account
\* it knew before.
C19_Witness ==
    /\ env_test_mode
    /\ Len(result) = 2 /\ record_index = 2 /\ refresh_pc = "returned"
    /\ result[1].data = [magic_number |-> MAGIC_NUMBER, version |-> 1,
                         data_type |-> ACCOUNT_TYPE_MAPPING, header_complete |-> TRUE,
                         complete |-> TRUE]
    /\ result[2].data = [magic_number |-> MAGIC_NUMBER, version |-> VERSION,
                         data_type |-> ACCOUNT_TYPE_TEST, header_complete |-> TRUE,
                         complete |-> FALSE]
    /\ known_mapping_accounts = EmptyDict
    /\ DOMAIN known_product_accounts = {"account_1"}
    /\ known_price_accounts = EmptyDict
    /\ known_permission_account = None

\* C20: a record that cannot be decoded (its payload ends too early, or its
\* header is the expected one and names no known kind) is left out of the
\* working set, and refresh_program_accounts goes through the whole result
\* and stores every other record that decodes.
C20_UndecodableRecordIsDropped ==
    /\ refresh_pc # "raised"
    /\ refresh_pc = "returned" =>
          \A i \in 1..Len(result) :
              LET data == result[i].data
              IN  (/\ data.magic_number = MAGIC_NUMBER /\ data.version = VERSION
                   /\ data.header_complete /\ data.complete
                   /\ data.data_type \in {ACCOUNT_TYPE_PRODUCT, ACCOUNT_TYPE_PRICE})
                  => result[i].pubkey \in
                        DOMAIN known_product_accounts \cup DOMAIN known_price_accounts

\* How many components stand at the head of the words before a component
\* whose publisher key is all zero or that the words do not hold in full.
LeadingComponents(words) ==
    CHOOSE n \in 0..(Len(words) \div 3) :
        /\ \A k \in 1..n : words[3 * k - 2] # ZeroWord
        /\ n < Len(words) \div 3 => words[3 * n + 1] = ZeroWord

\* C21: when parse_price_data returns, its price components are the
\* consecutive components from offset 240 up to, and without, the first
\* component whose publisher key is all zero, or all of them when the data
\* ends first; nothing after the terminator is a component, and the result
\* is the same for every value of the header field components_count.  It
\* returns when the zero key is found or the data ends with a whole component.
C21_ComponentsUpToZeroKey ==
    codec_pc = "price_done" =>
        LET words == price_data.words
            n == LeadingComponents(words)
        IN  /\ ~codec_result.raised =>
                 /\ Len(codec_result.components) = n
                 /\ \A k \in 1..n :
                        /\ codec_result.components[k].publisher_key = words[3 * k - 2]
                        /\ codec_result.components[k].publisher_key # ZeroWord
                        /\ codec_result.components[k].aggregate_price = words[3 * k - 1]
                        /\ codec_result.components[k].latest_price = words[3 * k]
            /\ ~codec_result.raised <=>
                 \/ 3 * n < Len(words) /\ words[3 * n + 1] = ZeroWord
                 \/ 3 * n = Len(words) /\ price_data.tail_bytes = 0
            /\ \A count \in 0..MaxCount :
                 parse_price_data([price_data EXCEPT !.components_count = count])
                     = codec_result

\* One component, whose price words may be zero, then the zero key and two
\* more words that are not read, under a header that announces two components.
C21_Witness ==
    /\ codec_pc = "price_done"
    /\ price_data.words = <<"key_a", ZeroWord, "key_b", ZeroWord, "key_a", "key_b">>
    /\ price_data.components_count = 2
    /\ ~codec_result.raised
    /\ codec_result.components = <<PriceComponent("key_a", ZeroWord, "key_b")>>

\* C22: the metadata that parse_product_data decodes from a product record
\* holding encode_product_metadata(items) from offset 48 up to used_size is
\* items, pair by pair in the same order, whatever bytes follow used_size.
C22_MetadataRoundTrips ==
    codec_pc = "product_done" =>
        /\ ~codec_result.raised
        /\ codec_result.metadata = product_data.metadata

\* The product loop is about to plan symbol s.
NextInProductLoop(s) ==
    /\ sync_pc = "products"
    /\ symbol_index < Len(Items)
    /\ Items[symbol_index + 1] = s

\* With generate_keys=False no step creates a keypair, and planning a symbol
\* without a stored product or price keypair, once the tail of the mapping
\* chain and its keypair are there, raises RuntimeError and plans nothing.
\* With generate_keys=True no keypair is removed, and a second invocation
\* finds every keypair of the first and creates none.
KeypairStep ==
    /\ ~generate_keys => key_dir' = key_dir
    /\ \A s \in Symbols :
          (/\ ~generate_keys
           /\ NextInProductLoop(s)
           /\ ProductLabel(s) \notin key_dir \/ PriceLabel(s) \notin key_dir
           /\ mapping_accounts # EmptyDict
           /\ TailMapping \in key_dir)
          => /\ symbol_index' = symbol_index
             /\ plans' = plans
             /\ sync_pc' # sync_pc => sync_pc' = "raised" /\ sync_error' = "RuntimeError"
    /\ generate_keys => key_dir \subseteq key_dir'
    /\ (generate_keys /\ run > 1 /\ run' = run) => key_dir' = key_dir

C24_DryRunSubmitsNothingAndReturns ==
    ~send_transactions =>
        /\ \A id \in TaskIds : transactions[id] = NoTask
        /\ chain = initial_chain
        /\ sync_pc = "raised" => sync_error = "RuntimeError"

\* The serialized size of the transaction when it held its first i instructions.
SizeAfter(transaction, i) ==
    compute_transaction_size(transaction.fee_payer, Prefix(transaction.instructions, i))

\* C25: an instruction after the first was appended to a submitted
\* transaction only when the size of the transaction, computed on the
\* instructions it held then, was below PACKET_DATA_SIZE / 2; so every
\* transaction that is followed by another one of the same call, or still
\* has instructions of the call left to send after it, has a size of at
\* least PACKET_DATA_SIZE / 2, and a transaction none of whose instructions
\* added more than PACKET_DATA_SIZE / 2 bytes is below PACKET_DATA_SIZE.
C25_AppendWhileBelowHalf ==
    \A t \in 1..Len(submitted) :
        LET transaction == submitted[t]
            n == Len(transaction.instructions)
        IN  /\ n >= 1
            /\ transaction.size = SizeAfter(transaction, n)
            /\ \A i \in 1..(n - 1) : 2 * SizeAfter(transaction, i) < PACKET_DATA_SIZE
            /\ (\/ t < Len(submitted)
                \/ send_pc = "in_flight" /\ Suffix(instructions, ix_index) # <<>>)
               => 2 * transaction.size >= PACKET_DATA_SIZE
            /\ NoInstructionAddsOverHalf(transaction) =>
                   transaction.size < PACKET_DATA_SIZE

\* Four instructions went out as two transactions: the first one took a
\* third instruction while it was below half a packet and was closed at or
\* above it, and the last one stayed below half a packet.
C25_Witness ==
    /\ send_pc = "returned"
    /\ Len(send_input) = 4
    /\ Len(submitted) = 2
    /\ Len(submitted[1].instructions) = 3
    /\ 2 * SizeAfter(submitted[1], 2) < PACKET_DATA_SIZE
    /\ 2 * submitted[1].size >= PACKET_DATA_SIZE
    /\ submitted[1].size < PACKET_DATA_SIZE
    /\ 2 * submitted[2].size < PACKET_DATA_SIZE

\* The call has ended, by returning or by an exception of the RPC client.
SendEnded == send_pc \in {"returned", "raised"}

\* What holds of the transactions submitted so far.  The instructions of a
\* transaction leave the list still to send only when it is confirmed, so
\* when the call is about to build a transaction every earlier one has been.
SubmissionsSoFar ==
    /\ send_input = <<>> => submitted = <<>>
    /\ Len(submitted) <= Len(send_input)
    /\ \A t \in 1..Len(submitted) : Len(submitted[t].instructions) >= 1
    /\ (send_pc = "returned" /\ send_input # <<>>) => Len(submitted) >= 1
    /\ send_pc = "call" =>
           /\ in_flight = <<>>
           /\ ConcatInstructions(submitted) \o instructions = send_input
    /\ send_pc = "in_flight" =>
           /\ in_flight = <<submitted[Len(submitted)]>>
           /\ ConcatInstructions(Prefix(submitted, Len(submitted) - 1)) \o instructions
                  = send_input

\* One step submits at most one transaction, and only when none awaits its
\* confirmation; while one does, the next step is its confirmation or its
\* failure; and each confirmation shortens the list still to send.
SubmissionStep ==
    /\ submitted' # submitted =>
           /\ send_pc = "call" /\ in_flight = <<>>
           /\ \E transaction \in {in_flight'[1]} : submitted' = Append(submitted, transaction)
    /\ in_flight # <<>> =>
           /\ submitted' = submitted
           /\ in_flight' = <<>>
           /\ send_pc' # "raised" => Len(instructions') < Len(instructions)
    /\ SendEnded => UNCHANGED sendVars

\* C26: send_transaction ends for every list of instructions; given the
\* empty list it submits nothing; given n >= 1 instructions a call that
\* returns has submitted between 1 and n transactions, each of at least one
\* instruction, and each was submitted after the one before it was
\* confirmed.
C26_SendTerminates ==
    /\ []SubmissionsSoFar
    /\ [][SubmissionStep]_vars
    /\ <>SendEnded

\* A call with three instructions returned after three transactions of one
\* instruction each.
C26_Witness ==
    /\ send_pc = "returned"
    /\ Len(send_input) = 3
    /\ Len(submitted) = 3
    /\ \A t \in 1..3 : Len(submitted[t].instructions) = 1

\* The provided signers an instruction of the transaction names as a signer.
ReferencedSigners(transaction) ==
    {signers[k] : k \in {n \in 1..Len(signers) :
        \E i \in 1..Len(transaction.instructions) :
            \E j \in 1..Len(transaction.instructions[i].keys) :
                /\ transaction.instructions[i].keys[j].pubkey = signers[n]
                /\ transaction.instructions[i].keys[j].is_signer}}

SignedBy(transaction) ==
    {transaction.signed_by[k] : k \in 1..Len(transaction.signed_by)}

\* The recursive call is given the signer list of the first call.
SameSigners == signers' = signers

\* C27: every submitted transaction has the first provided signer as fee
\* payer and is signed by the provided signers that its own instructions
\* name as signers, by each of them once and by no other; the signer list
\* stays the same for every transaction of the call.
C27_FeePayerAndActualSigners ==
    /\ [](\A t \in 1..Len(submitted) :
            /\ submitted[t].fee_payer = signers[1]
            /\ SignedBy(submitted[t]) = ReferencedSigners(submitted[t])
            /\ Cardinality(SignedBy(submitted[t])) = Len(submitted[t].signed_by))
    /\ [][SameSigners]_vars

\* A batch went out as two transactions with the same fee payer and
\* different signers, neither signed by every keypair provided.
C27_Witness ==
    /\ send_pc = "returned"
    /\ Len(submitted) = 2
    /\ submitted[1].fee_payer = submitted[2].fee_payer
    /\ SignedBy(submitted[1]) # SignedBy(submitted[2])
    /\ "price_BTCUSD" \in SignedBy(submitted[2])
    /\ "mapping_0" \notin SignedBy(submitted[1]) \cup SignedBy(submitted[2])

\* The keys of the records of the result that decode as the given kind of
\* account.
FetchedAs(kind) ==
    {result[i].pubkey : i \in {n \in 1..Len(result) :
        /\ ~parse_account(result[n]).raised
        /\ parse_account(result[n]).value # NoPythAccount
        /\ parse_account(result[n]).value.data = kind}}

\* C28 as stated: when refresh_program_accounts has returned, the working
\* sets hold the accounts derived from the result of that fetch and no
\* other: an account an earlier fetch stored and this result does not hold,
\* or no longer holds as that kind, is gone.
C28_WorkingSetIsLatestFetch ==
    refresh_pc = "returned" =>
        /\ DOMAIN known_mapping_accounts \subseteq FetchedAs("MappingData")
        /\ DOMAIN known_product_accounts = FetchedAs("ProductData")
        /\ DOMAIN known_price_accounts = FetchedAs("PriceData")

\* A fetch outside test mode stores no mapping account of this program,
\* whose key is in no reference pair, and stores every product and price
\* account of the network.
ListedMappingsOnlyStep ==
    (sync_pc \in {"fetch", "refetch_mapping", "refetch_products"} /\ sync_pc' # sync_pc) =>
        /\ ~test_mode => mapping_accounts' = EmptyDict
        /\ \A key \in Fetched(chain, "product") :
               key \in DOMAIN product_accounts' /\ product_accounts'[key] = chain[key]
        /\ \A key \in Fetched(chain, "price") :
               key \in DOMAIN price_accounts' /\ price_accounts'[key] = chain[key]

\* The mapping phase outside test mode, when it does not raise, plans the
\* initialisation of the account of keypair mapping_0, after its creation
\* if no account has that key, whatever mapping accounts the network holds.
NewMappingPlannedStep ==
    (sync_pc = "mapping" /\ ~test_mode /\ sync_pc' \notin {"mapping", "raised"}) =>
        /\ sort_mapping_account_keys(DictValues(mapping_accounts)).keys = <<>>
        /\ plans'.mapping =
               (IF chain["mapping_0"].kind = "absent"
                THEN <<create_account("funding", "mapping_0", MAPPING_ACCOUNT_SIZE,
                                      ProgramKey)>>
                ELSE <<>>) \o <<init_mapping(ProgramKey, "funding", "mapping_0")>>

\* C29: outside test mode a decoded mapping account enters the working set
\* only if the program key and its key form one of the three reference
\* pairs, while product and price accounts always do; for a program with no
\* listed mapping account the mapping chain is empty and the mapping phase
\* plans a new mapping account, also when the network holds mapping accounts.
C29_UnlistedMappingsAreNotStored ==
    /\ [](~test_mode => mapping_accounts = EmptyDict)
    /\ [][ListedMappingsOnlyStep]_vars
    /\ [][NewMappingPlannedStep]_vars

\* Outside test mode, with an initialised mapping account and a product
\* account on the network, the product account is in the working set, the
\* mapping account is not, and the mapping phase has planned init_mapping.
C29_Witness ==
    /\ ~test_mode
    /\ Fetched(chain, "mapping") # {}
    /\ Fetched(chain, "product") # {}
    /\ DOMAIN product_accounts = Fetched(chain, "product")
    /\ mapping_accounts = EmptyDict
    /\ plans.mapping = <<init_mapping(ProgramKey, "funding", "mapping_0")>>
    /\ sync_pc \notin {"fetch", "authority", "mapping", "raised"}

(***************************************************************************)
(* Properties of program_sync.util.sort_mapping_account_keys                *)
(***************************************************************************)
AllMappingData(accts) == \A i \in 1..Len(accts) : accts[i].data = "MappingData"

RaisedRuntimeError(outcome) ==
    /\ outcome.raised
    /\ outcome.error \in {"RuntimeError: Not a mapping account",
                          "RuntimeError: The mapping account linked list has no end"}

\* C30 as stated: for a non-empty list of mapping accounts that forms a
\* valid chain the call returns the keys head first, tail last; it raises
\* RuntimeError when an element is not a mapping account and when no
\* account has the zero key as next key.
C30_SyncSortReturnsHeadToTail ==
    sort_pc = "sync_done" =>
        /\ (AllMappingData(accounts) /\ ValidChain(accounts)) =>
              /\ ~sort_result.raised
              /\ HeadToTail(accounts, sort_result.keys)
        /\ ~AllMappingData(accounts) => RaisedRuntimeError(sort_result)
        /\ (AllMappingData(accounts) /\ Tails(accounts) = {}) =>
              RaisedRuntimeError(sort_result)

====
